---- MODULE Spec2Model ----
(***************************************************************************)
(* Worker Coordinator (src/worker_coordinator.py): file based claims,      *)
(* locks and heartbeats shared by several worker processes.                *)
(*                                                                         *)
(* The shared directory is modelled file by file.  A time stamp written by *)
(* the code (heartbeat, claimed_at, locked_at) is kept as its age, that is *)
(* time.time() minus the stamp, because every comparison of the code has   *)
(* the form  now - stamp  against a constant; an age saturates one tick    *)
(* above the constant it is compared with.                                 *)
(*                                                                         *)
(* Every method is an operator from the state S (files and the workers'    *)
(* fields) to the state after it.  The methods that race for a file are    *)
(* written as step machines, one file system access per step, and their    *)
(* whole call is the run of the same steps without interruption.           *)
(*                                                                         *)
(*   SpecClaims    issue claims, whole calls, time in heartbeat intervals  *)
(*   Spec          issue claims with file locks, whole calls               *)
(*   SpecRole      init and audit locks, whole calls                       *)
(*   SpecRace      try_claim_issue, interleaved file system steps          *)
(*   SpecFiles     try_claim_issue_with_files, interleaved operations      *)
(*   SpecRoleRace  try_claim_init_lock / try_claim_audit_lock, interleaved *)
(*   SpecGarble    issue claims, whole calls, claim files turned to garbage*)
(*   SpecUnregistered  calls of workers that are not registered, cleanup   *)
(*   SpecInterrupt cleanup from the SIGINT handler in the middle of a call *)
(*   SpecCrash     a worker that dies, and the take-over of what it held   *)
(*   SpecConflicts check_file_conflicts on live, stale and garbage locks   *)
(*  SpecSweep     register and its sweeps over every store                 *)
(*  SpecBeat      the heartbeat write step by step, with scans and sweeps  *)
(*  SpecFault     calls and heartbeat turns while the heartbeat write fails*)
(*  SpecRequests  decomposition requests made, processed and made again    *)
(*  SpecPending   pending requests listed, processed and cleared           *)
(*  SpecCli       the claim, release and check commands of claim_issue.py  *)
(*  SpecHeld      try_claim_issue_with_files by workers that hold things   *)
(*  SpecShared    issues claimed with file lists that share a path         *)
(*  SpecMarkRace  mark_decomposition_processed step by step, with requests *)
(*  SpecSignal    heartbeat loops of agents that are interrupted           *)
(***************************************************************************)
EXTENDS Integers, Sequences, FiniteSets, TLC

\* ---- program constants (worker_coordinator.py) ----
HEARTBEAT_INTERVAL_SECONDS == 30
HEARTBEAT_TIMEOUT_SECONDS == 90
CLAIM_STALE_TIMEOUT_SECONDS == 120
INIT_LOCK_TIMEOUT_SECONDS == 300
AUDIT_LOCK_TIMEOUT_SECONDS == 1800

\* ---- bounds of the model ----
NumWorkers == 2
NumIssues == 2
NumPaths == 2
\* issues the whole-call specification with file locks works on
NumFileIssues == 1
\* workers taking part in the step-by-step races on one issue
NumRacers == 3
\* reasons and sub-task titles a decomposition request is made with
NumReasons == 2
NumTitles == 2

Workers == 1..NumWorkers
Racers == 1..NumRacers
AllWorkers == Workers \cup Racers
Issues == 1..NumIssues
FileIssues == 1..NumFileIssues
Paths == 1..NumPaths
Reasons == 1..NumReasons
Titles == 1..NumTitles
\* the suggested breakdowns: lists of at most two titles
Breakdowns ==
  {<<>>} \cup {<<t>> : t \in Titles} \cup {<<t, u>> : t \in Titles, u \in Titles}
\* Python's None where the code has a worker id or an issue id: no worker, no issue has it
None == 0

\* ---- sequences as Python lists ----
InSeq(x, s) == \E i \in 1..Len(s) : s[i] = x

\* list.remove(x): drops the first occurrence
RemoveFirst(s, x) ==
  IF ~InSeq(x, s) THEN s
  ELSE LET k == CHOOSE i \in 1..Len(s) : s[i] = x /\ \A j \in 1..(i-1) : s[j] # x
       IN [i \in 1..(Len(s)-1) |-> IF i < k THEN s[i] ELSE s[i+1]]

SeqSet(s) == {s[i] : i \in 1..Len(s)}

\* file lists a caller passes: every ordering of every set of paths
FileLists ==
  {s \in UNION {[1..n -> Paths] : n \in 0..NumPaths} :
     \A i, j \in 1..Len(s) : i # j => s[i] # s[j]}

\* ---- file contents ----
\* state: "absent" (no file), "ok" (parses), "corrupt" (does not parse),
\* "empty" (created with O_EXCL by worker_id, content not yet written: does not parse)
AbsentWorker == [state |-> "absent", age |-> 0, claimed_issues |-> <<>>, claimed_files |-> <<>>]
AbsentClaim == [state |-> "absent", worker_id |-> None, age |-> 0, files |-> <<>>]
CorruptClaim == [state |-> "corrupt", worker_id |-> None, age |-> 0, files |-> <<>>]
AbsentLock == [state |-> "absent", worker_id |-> None, issue_id |-> None, age |-> 0]
CorruptLock == [state |-> "corrupt", worker_id |-> None, issue_id |-> None, age |-> 0]
AbsentRole == [state |-> "absent", worker_id |-> None, age |-> 0]
\* status: "absent" (no file), "pending", "processed"
AbsentRequest ==
  [status |-> "absent", requested_by |-> None, reason |-> None, suggested_breakdown |-> <<>>,
   processed_by |-> None, created_issues |-> <<>>]

VARIABLES
  hb,                \* worker-<id>.lock : heartbeat files
  claims,            \* claims/<issue>.claim
  locks,             \* files/<path>.lock
  init_lock,         \* init.lock
  audit_lock,        \* audit.lock
  requests,          \* decomposition_requests/<issue>.request
  write_fails,       \* whether writing worker-<id>.tmp raises OSError
  registered,        \* self._registered of each worker
  claimed_issues,    \* self.claimed_issues
  claimed_files,     \* self.claimed_files
  holds_init_lock,   \* self._holds_init_lock
  holds_audit_lock,  \* self._holds_audit_lock
  call,              \* the call each worker is executing step by step, with its locals
  last,              \* the operation completed by the latest step, with what it returned
  scen               \* what the claim file of the raced issue was when the race began

vars == <<hb, claims, locks, init_lock, audit_lock, requests, write_fails, registered,
          claimed_issues,
          claimed_files, holds_init_lock, holds_audit_lock, call, last, scen>>

\* the shared directory and the workers' memories as one value
St == [hb |-> hb, claims |-> claims, locks |-> locks, init_lock |-> init_lock,
       audit_lock |-> audit_lock, requests |-> requests, write_fails |-> write_fails,
       registered |-> registered,
       claimed_issues |-> claimed_issues, claimed_files |-> claimed_files,
       holds_init_lock |-> holds_init_lock, holds_audit_lock |-> holds_audit_lock]

Apply(S) ==
  /\ hb' = S.hb
  /\ claims' = S.claims
  /\ locks' = S.locks
  /\ init_lock' = S.init_lock
  /\ audit_lock' = S.audit_lock
  /\ requests' = S.requests
  /\ write_fails' = S.write_fails
  /\ registered' = S.registered
  /\ claimed_issues' = S.claimed_issues
  /\ claimed_files' = S.claimed_files
  /\ holds_init_lock' = S.holds_init_lock
  /\ holds_audit_lock' = S.holds_audit_lock

\* ---- a call in progress: program counter and locals ----
Idle == [pc |-> "idle", op |-> "none", role |-> "none", issue |-> None, files |-> <<>>, i |-> 0,
         got |-> <<>>, made |-> {}, ok |-> FALSE, raised |-> FALSE, conflicts |-> <<>>,
         data |-> AbsentRequest, created |-> <<>>]

Goto(S, L, pc) == [S |-> S, L |-> [L EXCEPT !.pc = pc]]
Return(S, L, ok) == [S |-> S, L |-> [L EXCEPT !.pc = "done", !.ok = ok]]
Raise(S, L) == [S |-> S, L |-> [L EXCEPT !.pc = "done", !.ok = FALSE, !.raised = TRUE]]

\* ---- heartbeat store ----
\* worker-<id>.lock opened for writing and not yet written out
PartialWorker == [state |-> "partial", age |-> 0, claimed_issues |-> <<>>, claimed_files |-> <<>>]

\* variant of hbu_open that opens worker-<id>.lock itself for writing
hbu_open_in_place(S, w, L) ==
  IF S.write_fails THEN Return(S, L, FALSE)
  ELSE Goto([S EXCEPT !.hb[w] = PartialWorker], L, "hbu_write")

\* temp_file.write_text opens worker-<id>.tmp, which the scans do not list
hbu_open(S, w, L) ==
  IF S.write_fails THEN Return(S, L, FALSE)
  ELSE Goto(S, L, "hbu_write")

\* temp_file.write_text writes the data; an OSError leaves worker-<id>.lock as it was
hbu_write(S, w, L) ==
  IF S.write_fails THEN Return(S, L, FALSE)
  ELSE Goto(S, L, "hbu_rename")

\* temp_file.rename puts the complete file in place of the previous one
hbu_rename(S, w, L) ==
  IF S.write_fails THEN Return(S, L, FALSE)
  ELSE Return([S EXCEPT !.hb[w] = [state |-> "ok", age |-> 0,
                                   claimed_issues |-> S.claimed_issues[w],
                                   claimed_files |-> S.claimed_files[w]]], L, TRUE)

hbu_step(S, w, L) ==
  CASE L.pc = "hbu_open" -> hbu_open(S, w, L)
    [] L.pc = "hbu_write" -> hbu_write(S, w, L)
    [] L.pc = "hbu_rename" -> hbu_rename(S, w, L)

RECURSIVE hbu_run(_, _, _)
hbu_run(S, w, L) ==
  IF L.pc = "done" THEN [S |-> S, L |-> L]
  ELSE LET r == hbu_step(S, w, L) IN hbu_run(r.S, w, r.L)

\* returns normally whether or not the file was written
_update_heartbeat(S, w) ==
  hbu_run(S, w, [Idle EXCEPT !.pc = "hbu_open", !.op = "_update_heartbeat"]).S

\* variant of get_active_workers that still counts a heartbeat of exactly 90 s
get_active_workers_inclusive(S) ==
  {v \in DOMAIN S.hb : S.hb[v].state = "ok" /\ S.hb[v].age <= HEARTBEAT_TIMEOUT_SECONDS}

get_active_workers(S) ==
  {v \in DOMAIN S.hb : S.hb[v].state = "ok" /\ S.hb[v].age < HEARTBEAT_TIMEOUT_SECONDS}

_cleanup_stale_workers(S, w) ==
  [S EXCEPT !.hb = [v \in DOMAIN S.hb |->
     IF v = w \/ S.hb[v].state = "absent" THEN S.hb[v]
     ELSE IF S.hb[v].state # "ok" THEN AbsentWorker
     ELSE IF S.hb[v].age > HEARTBEAT_TIMEOUT_SECONDS THEN AbsentWorker
     ELSE S.hb[v]]]

\* ---- singleton role locks (init.lock, audit.lock), one file system access per step ----
RoleLock(S, r) == IF r = "init" THEN S.init_lock ELSE S.audit_lock
SetRoleLock(S, r, v) ==
  IF r = "init" THEN [S EXCEPT !.init_lock = v] ELSE [S EXCEPT !.audit_lock = v]
Holds(S, r, w) == IF r = "init" THEN S.holds_init_lock[w] ELSE S.holds_audit_lock[w]
SetHolds(S, r, w, b) ==
  IF r = "init" THEN [S EXCEPT !.holds_init_lock[w] = b]
  ELSE [S EXCEPT !.holds_audit_lock[w] = b]
RoleTimeout(r) ==
  IF r = "init" THEN INIT_LOCK_TIMEOUT_SECONDS ELSE AUDIT_LOCK_TIMEOUT_SECONDS

\* registered check, the holds flag, and the exists() of the stale check
rl_entry(S, w, L) ==
  IF ~S.registered[w] THEN Raise(S, L)
  ELSE IF Holds(S, L.role, w) THEN Return(S, L, TRUE)
  ELSE Goto(S, L, "rl_sweep_exists")

\* _cleanup_stale_*_lock: exists()
rl_sweep_exists(S, w, L) ==
  IF RoleLock(S, L.role).state = "absent" THEN Goto(S, L, "rl_exists")
  ELSE Goto(S, L, "rl_sweep_read")

\* _cleanup_stale_*_lock: read_text, json.loads, age and owner checks
rl_sweep_read(S, w, L) ==
  LET l == RoleLock(S, L.role) IN
  IF l.state # "ok" THEN Goto(S, L, "rl_sweep_unlink2")
  ELSE IF l.age > RoleTimeout(L.role) THEN Goto(S, L, "rl_sweep_unlink")
  ELSE IF l.worker_id \notin get_active_workers(S) THEN Goto(S, L, "rl_sweep_unlink")
  ELSE Goto(S, L, "rl_exists")

\* _cleanup_stale_*_lock: unlink() of the stale lock; an error lands in the except branch
rl_sweep_unlink(S, w, L) ==
  IF RoleLock(S, L.role).state = "absent" THEN Goto(S, L, "rl_sweep_unlink2")
  ELSE Goto(SetRoleLock(S, L.role, AbsentRole), L, "rl_exists")

\* _cleanup_stale_*_lock: the except branch, unlink() with every error ignored
rl_sweep_unlink2(S, w, L) ==
  Goto(SetRoleLock(S, L.role, AbsentRole), L, "rl_exists")

\* try_claim_*_lock: exists()
rl_exists(S, w, L) ==
  IF RoleLock(S, L.role).state = "absent" THEN Goto(S, L, "rl_create")
  ELSE Goto(S, L, "rl_read")

\* try_claim_*_lock: read_text, json.loads, owner check
rl_read(S, w, L) ==
  LET l == RoleLock(S, L.role) IN
  IF l.state # "ok" THEN Goto(S, L, "rl_unlink")
  ELSE IF l.worker_id = w THEN Return(SetHolds(S, L.role, w, TRUE), L, TRUE)
  ELSE Return(S, L, FALSE)

\* try_claim_*_lock: the except branch, unlink() or return False
rl_unlink(S, w, L) ==
  IF RoleLock(S, L.role).state = "absent" THEN Return(S, L, FALSE)
  ELSE Goto(SetRoleLock(S, L.role, AbsentRole), L, "rl_create")

\* try_claim_*_lock: os.open(O_CREAT | O_EXCL | O_WRONLY)
rl_create(S, w, L) ==
  IF RoleLock(S, L.role).state # "absent" THEN Return(S, L, FALSE)
  ELSE Goto(SetRoleLock(S, L.role, [state |-> "empty", worker_id |-> w, age |-> 0]),
            L, "rl_write")

\* try_claim_*_lock: os.write to the descriptor, set the holds flag
rl_write(S, w, L) ==
  LET l == RoleLock(S, L.role)
      S1 == IF l.state = "empty" /\ l.worker_id = w
            THEN SetRoleLock(S, L.role, [state |-> "ok", worker_id |-> w, age |-> 0])
            ELSE S
  IN Return(SetHolds(S1, L.role, w, TRUE), L, TRUE)

rl_step(S, w, L) ==
  CASE L.pc = "rl_entry" -> rl_entry(S, w, L)
    [] L.pc = "rl_sweep_exists" -> rl_sweep_exists(S, w, L)
    [] L.pc = "rl_sweep_read" -> rl_sweep_read(S, w, L)
    [] L.pc = "rl_sweep_unlink" -> rl_sweep_unlink(S, w, L)
    [] L.pc = "rl_sweep_unlink2" -> rl_sweep_unlink2(S, w, L)
    [] L.pc = "rl_exists" -> rl_exists(S, w, L)
    [] L.pc = "rl_read" -> rl_read(S, w, L)
    [] L.pc = "rl_unlink" -> rl_unlink(S, w, L)
    [] L.pc = "rl_create" -> rl_create(S, w, L)
    [] L.pc = "rl_write" -> rl_write(S, w, L)

\* runs the call until it reaches pc stop (or returns)
RECURSIVE rl_run(_, _, _, _)
rl_run(S, w, L, stop) ==
  IF L.pc = "done" \/ L.pc = stop THEN [S |-> S, L |-> L]
  ELSE LET r == rl_step(S, w, L) IN rl_run(r.S, w, r.L, stop)

\* ---- staleness sweeps ----
_cleanup_stale_init_lock(S) ==
  rl_run(S, None, [Idle EXCEPT !.pc = "rl_sweep_exists", !.role = "init"], "rl_exists").S

_cleanup_stale_audit_lock(S) ==
  rl_run(S, None, [Idle EXCEPT !.pc = "rl_sweep_exists", !.role = "audit"], "rl_exists").S

_cleanup_stale_claims(S) ==
  LET active_worker_ids == get_active_workers(S) IN
  [S EXCEPT !.claims = [x \in DOMAIN S.claims |->
     LET c == S.claims[x] IN
     IF c.state = "absent" THEN c
     ELSE IF c.state # "ok" THEN AbsentClaim
     ELSE IF c.worker_id \notin active_worker_ids \/ c.age > CLAIM_STALE_TIMEOUT_SECONDS
          THEN AbsentClaim
     ELSE c]]

\* variant of _cleanup_stale_file_locks that deletes only the files that do not parse
_cleanup_stale_file_locks_unparsable(S) ==
  [S EXCEPT !.locks = [p \in DOMAIN S.locks |->
     LET l == S.locks[p] IN
     IF l.state = "absent" THEN l
     ELSE IF l.state # "ok" THEN AbsentLock
     ELSE l]]

_cleanup_stale_file_locks(S) ==
  LET active_worker_ids == get_active_workers(S) IN
  [S EXCEPT !.locks = [p \in DOMAIN S.locks |->
     LET l == S.locks[p] IN
     IF l.state = "absent" THEN l
     ELSE IF l.state # "ok" THEN AbsentLock
     ELSE IF l.worker_id \notin active_worker_ids \/ l.age > CLAIM_STALE_TIMEOUT_SECONDS
          THEN AbsentLock
     ELSE l]]

\* variant of register that leaves the claims directory unswept
register_claims_unswept(S, w) ==
  LET S1 == _update_heartbeat(S, w)
      S2 == [S1 EXCEPT !.registered[w] = TRUE]
      S3 == _cleanup_stale_workers(S2, w)
      S4 == _cleanup_stale_init_lock(S3)
  IN _cleanup_stale_file_locks(S4)

register(S, w) ==
  LET S1 == _update_heartbeat(S, w)
      S2 == [S1 EXCEPT !.registered[w] = TRUE]
      S3 == _cleanup_stale_workers(S2, w)
      S4 == _cleanup_stale_init_lock(S3)
      S5 == _cleanup_stale_claims(S4)
  IN _cleanup_stale_file_locks(S5)

\* ---- issue claim store: try_claim_issue, one file system access per step ----
\* variant of the first step without the look at the worker's own claim set
tci_exists_unremembered(S, w, L) ==
  IF ~S.registered[w] THEN Raise(S, L)
  ELSE IF S.claims[L.issue].state # "absent" THEN Goto(S, L, "tci_read")
  ELSE Goto(S, L, "tci_create")

\* registered check, own claim set, claim_file.exists()
tci_exists(S, w, L) ==
  IF ~S.registered[w] THEN Raise(S, L)
  ELSE IF InSeq(L.issue, S.claimed_issues[w]) THEN Return(S, L, TRUE)
  ELSE IF S.claims[L.issue].state # "absent" THEN Goto(S, L, "tci_read")
  ELSE Goto(S, L, "tci_create")

\* read_text, json.loads, owner against get_active_workers()
tci_read(S, w, L) ==
  LET c == S.claims[L.issue] IN
  IF c.state # "ok" THEN Goto(S, L, "tci_unlink_corrupt")
  ELSE IF c.worker_id = w
       THEN Return([S EXCEPT !.claimed_issues[w] = Append(@, L.issue)], L, TRUE)
  ELSE IF c.worker_id \notin get_active_workers(S) THEN Goto(S, L, "tci_unlink_stale")
  ELSE Return(S, L, FALSE)

\* claim_file.unlink() of the stale claim; FileNotFoundError lands in the except branch
tci_unlink_stale(S, w, L) ==
  IF S.claims[L.issue].state = "absent" THEN Goto(S, L, "tci_unlink_corrupt")
  ELSE Goto([S EXCEPT !.claims[L.issue] = AbsentClaim], L, "tci_create")

\* except branch: claim_file.unlink(), return False when that fails
tci_unlink_corrupt(S, w, L) ==
  IF S.claims[L.issue].state = "absent" THEN Return(S, L, FALSE)
  ELSE Goto([S EXCEPT !.claims[L.issue] = AbsentClaim], L, "tci_create")

\* os.open(O_CREAT | O_EXCL | O_WRONLY)
tci_create(S, w, L) ==
  IF S.claims[L.issue].state # "absent" THEN Return(S, L, FALSE)
  ELSE Goto([S EXCEPT !.claims[L.issue] =
               [state |-> "empty", worker_id |-> w, age |-> 0, files |-> <<>>]],
            L, "tci_write")

\* os.write to the descriptor (the file this worker created, also when it has been
\* unlinked since), os.close
tci_write(S, w, L) ==
  LET c == S.claims[L.issue]
      S1 == IF c.state = "empty" /\ c.worker_id = w
            THEN [S EXCEPT !.claims[L.issue] =
                    [state |-> "ok", worker_id |-> w, age |-> 0, files |-> <<>>]]
            ELSE S
  IN Goto(S1, L, "tci_append")

\* variant of tci_append in which a failed heartbeat write leaves the method by exception
tci_append_raising(S, w, L) ==
  LET S2 == [S EXCEPT !.claimed_issues[w] = Append(@, L.issue)]
  IN IF S.write_fails THEN Raise(S2, L) ELSE Return(_update_heartbeat(S2, w), L, TRUE)

\* append to claimed_issues, _update_heartbeat, return True
tci_append(S, w, L) ==
  LET S2 == [S EXCEPT !.claimed_issues[w] = Append(@, L.issue)]
  IN Return(_update_heartbeat(S2, w), L, TRUE)

tci_step(S, w, L) ==
  CASE L.pc = "tci_exists" -> tci_exists(S, w, L)
    [] L.pc = "tci_read" -> tci_read(S, w, L)
    [] L.pc = "tci_unlink_stale" -> tci_unlink_stale(S, w, L)
    [] L.pc = "tci_unlink_corrupt" -> tci_unlink_corrupt(S, w, L)
    [] L.pc = "tci_create" -> tci_create(S, w, L)
    [] L.pc = "tci_write" -> tci_write(S, w, L)
    [] L.pc = "tci_append" -> tci_append(S, w, L)

RECURSIVE tci_run(_, _, _)
tci_run(S, w, L) ==
  IF L.pc = "done" THEN [S |-> S, L |-> L]
  ELSE LET r == tci_step(S, w, L) IN tci_run(r.S, w, r.L)

\* the whole call, run without interruption
try_claim_issue(S, w, x) ==
  tci_run(S, w, [Idle EXCEPT !.pc = "tci_exists", !.op = "try_claim_issue", !.issue = x])

\* ---- file lock store ----
\* result of _try_claim_file: ok, and made = TRUE when the lock file was created
_try_claim_file(S, w, p, x) ==
  LET l == S.locks[p] IN
  IF InSeq(p, S.claimed_files[w]) THEN [S |-> S, ok |-> TRUE, made |-> FALSE]
  ELSE IF l.state = "ok" /\ l.worker_id = w
       THEN [S |-> [S EXCEPT !.claimed_files[w] = Append(@, p)], ok |-> TRUE, made |-> FALSE]
  ELSE IF l.state = "ok" /\ l.worker_id \in get_active_workers(S)
       THEN [S |-> S, ok |-> FALSE, made |-> FALSE]
  ELSE [S |-> [S EXCEPT !.locks[p] = [state |-> "ok", worker_id |-> w,
                                       issue_id |-> x, age |-> 0],
                        !.claimed_files[w] = Append(@, p)],
        ok |-> TRUE, made |-> TRUE]

_release_file(S, w, p) ==
  LET l == S.locks[p]
      S1 == IF l.state = "ok" /\ l.worker_id = w
            THEN [S EXCEPT !.locks[p] = AbsentLock] ELSE S
  IN [S1 EXCEPT !.claimed_files[w] = RemoveFirst(@, p)]

RECURSIVE release_files(_, _, _)
release_files(S, w, fs) ==
  IF fs = <<>> THEN S ELSE release_files(_release_file(S, w, Head(fs)), w, Tail(fs))

_update_issue_claim_files(S, x, fs) ==
  IF S.claims[x].state = "ok" THEN [S EXCEPT !.claims[x].files = fs] ELSE S

\* variant of check_file_conflicts that does not look at the owner's heartbeat
check_file_conflicts_any_owner(S, w, fs) ==
  LET conflict(p) == /\ S.locks[p].state = "ok"
                     /\ S.locks[p].worker_id # w
  IN SelectSeq(fs, conflict)

check_file_conflicts(S, w, fs) ==
  LET active_ids == get_active_workers(S)
      conflict(p) == /\ S.locks[p].state = "ok"
                     /\ S.locks[p].worker_id # w
                     /\ S.locks[p].worker_id \in active_ids
  IN SelectSeq(fs, conflict)

\* variant of release_claim that deletes the claim file without comparing worker_id
release_claim_unchecked(S, w, x) ==
  LET c == S.claims[x]
      S1 == IF c.state = "ok"
            THEN [release_files(S, w, c.files) EXCEPT !.claims[x] = AbsentClaim]
            ELSE S
      S2 == [S1 EXCEPT !.claimed_issues[w] = RemoveFirst(@, x)]
  IN _update_heartbeat(S2, w)

release_claim(S, w, x) ==
  LET c == S.claims[x]
      S1 == IF c.state = "ok" /\ c.worker_id = w
            THEN [release_files(S, w, c.files) EXCEPT !.claims[x] = AbsentClaim]
            ELSE S
      S2 == [S1 EXCEPT !.claimed_issues[w] = RemoveFirst(@, x)]
  IN _update_heartbeat(S2, w)

is_issue_claimed(S, x) ==
  LET c == S.claims[x] IN
  IF c.state = "ok" /\ c.worker_id \in get_active_workers(S) THEN c.worker_id ELSE None

\* variant of the rollback that releases the issue claim but leaves the file locks
cwf_rollback_claim_only(S, w, L) ==
  Return(release_claim(S, w, L.issue), L, FALSE)

\* variant of the first step that skips the pre-flight check_file_conflicts
cwf_check_skipped(S, w, L) ==
  IF ~S.registered[w] THEN Raise(S, L) ELSE Goto(S, L, "cwf_claim")

\* ---- try_claim_issue_with_files, one called operation per step ----
\* registered check and the pre-flight check_file_conflicts
cwf_check(S, w, L) ==
  IF ~S.registered[w] THEN Raise(S, L)
  ELSE LET conflicts == check_file_conflicts(S, w, L.files) IN
       IF conflicts # <<>>
       THEN [S |-> S, L |-> [L EXCEPT !.pc = "done", !.ok = FALSE, !.conflicts = conflicts]]
       ELSE Goto(S, L, "cwf_claim")

\* try_claim_issue(issue_id)
cwf_claim(S, w, L) ==
  LET r == try_claim_issue(S, w, L.issue) IN
  IF ~r.L.ok THEN Return(r.S, L, FALSE)
  ELSE [S |-> r.S,
        L |-> [L EXCEPT !.pc = IF L.files = <<>> THEN "cwf_update" ELSE "cwf_file", !.i = 1]]

\* one turn of the loop: _try_claim_file(file_path, issue_id)
cwf_file(S, w, L) ==
  LET p == L.files[L.i]
      r == _try_claim_file(S, w, p, L.issue)
  IN IF r.ok
     THEN [S |-> r.S,
           L |-> [L EXCEPT !.got = Append(@, p),
                           !.made = IF r.made THEN @ \cup {p} ELSE @,
                           !.i = @ + 1,
                           !.pc = IF L.i = Len(L.files) THEN "cwf_update" ELSE "cwf_file"]]
     ELSE [S |-> r.S, L |-> [L EXCEPT !.pc = "cwf_rollback", !.conflicts = <<p>>]]

\* rollback: _release_file for every path claimed in this call, then release_claim
cwf_rollback(S, w, L) ==
  Return(release_claim(release_files(S, w, L.got), w, L.issue), L, FALSE)

\* _update_issue_claim_files and the successful return
cwf_update(S, w, L) ==
  Return(_update_issue_claim_files(S, L.issue, L.files), L, TRUE)

cwf_step(S, w, L) ==
  CASE L.pc = "cwf_check" -> cwf_check(S, w, L)
    [] L.pc = "cwf_claim" -> cwf_claim(S, w, L)
    [] L.pc = "cwf_file" -> cwf_file(S, w, L)
    [] L.pc = "cwf_rollback" -> cwf_rollback(S, w, L)
    [] L.pc = "cwf_update" -> cwf_update(S, w, L)

RECURSIVE cwf_run(_, _, _)
cwf_run(S, w, L) ==
  IF L.pc = "done" THEN [S |-> S, L |-> L]
  ELSE LET r == cwf_step(S, w, L) IN cwf_run(r.S, w, r.L)

try_claim_issue_with_files(S, w, x, fs) ==
  cwf_run(S, w, [Idle EXCEPT !.pc = "cwf_check", !.op = "try_claim_issue_with_files",
                             !.issue = x, !.files = fs])

\* ---- singleton role locks: whole calls ----
try_claim_init_lock(S, w) ==
  rl_run(S, w, [Idle EXCEPT !.pc = "rl_entry", !.op = "try_claim_init_lock", !.role = "init"],
         "done")

\* variant of release_init_lock that clears the flag and leaves the lock file
release_init_lock_flag_only(S, w) ==
  [S EXCEPT !.holds_init_lock[w] = FALSE]

release_init_lock(S, w) ==
  IF ~S.holds_init_lock[w] THEN S
  ELSE LET l == S.init_lock
           S1 == IF l.state = "ok" /\ l.worker_id = w
                 THEN [S EXCEPT !.init_lock = AbsentRole] ELSE S
       IN [S1 EXCEPT !.holds_init_lock[w] = FALSE]

\* result [S, owner]: the stale check is part of the query
is_init_locked(S) ==
  LET S1 == _cleanup_stale_init_lock(S) IN
  [S |-> S1, owner |-> IF S1.init_lock.state = "ok" THEN S1.init_lock.worker_id ELSE None]

try_claim_audit_lock(S, w) ==
  rl_run(S, w, [Idle EXCEPT !.pc = "rl_entry", !.op = "try_claim_audit_lock", !.role = "audit"],
         "done")

release_audit_lock(S, w) ==
  IF ~S.holds_audit_lock[w] THEN S
  ELSE LET l == S.audit_lock
           S1 == IF l.state = "ok" /\ l.worker_id = w
                 THEN [S EXCEPT !.audit_lock = AbsentRole] ELSE S
       IN [S1 EXCEPT !.holds_audit_lock[w] = FALSE]

is_audit_locked(S) ==
  LET S1 == _cleanup_stale_audit_lock(S) IN
  [S |-> S1, owner |-> IF S1.audit_lock.state = "ok" THEN S1.audit_lock.worker_id ELSE None]

\* ---- decomposition requests ----
\* the request file written by request_decomposition
PendingRequest(w, reason, suggested_breakdown) ==
  [status |-> "pending", requested_by |-> w, reason |-> reason,
   suggested_breakdown |-> suggested_breakdown, processed_by |-> None,
   created_issues |-> <<>>]

\* variant of request_decomposition without the registered check
request_decomposition_unchecked(S, w, x, reason, suggested_breakdown) ==
  Return([S EXCEPT !.requests[x] = PendingRequest(w, reason, suggested_breakdown)],
         [Idle EXCEPT !.op = "request_decomposition", !.issue = x], TRUE)

\* variant of request_decomposition that leaves a request file that is already there
request_decomposition_exclusive(S, w, x, reason, suggested_breakdown) ==
  LET L == [Idle EXCEPT !.op = "request_decomposition", !.issue = x] IN
  IF ~S.registered[w] THEN Raise(S, L)
  ELSE IF S.requests[x].status # "absent" THEN Return(S, L, TRUE)
  ELSE Return([S EXCEPT !.requests[x] = PendingRequest(w, reason, suggested_breakdown)],
              L, TRUE)

\* write_text of the request file: a request already there is overwritten
request_decomposition(S, w, x, reason, suggested_breakdown) ==
  LET L == [Idle EXCEPT !.op = "request_decomposition", !.issue = x] IN
  IF ~S.registered[w] THEN Raise(S, L)
  ELSE Return([S EXCEPT !.requests[x] = PendingRequest(w, reason, suggested_breakdown)],
              L, TRUE)

\* the request file, if there is one, is rewritten as processed
mark_decomposition_processed(S, w, x, created_issues) ==
  IF S.requests[x].status = "absent" THEN S
  ELSE [S EXCEPT !.requests[x] = [@ EXCEPT !.status = "processed", !.processed_by = w,
                                           !.created_issues = created_issues]]

\* variant of get_pending_decomposition_requests that returns every request file
get_pending_decomposition_requests_any(S) ==
  {x \in DOMAIN S.requests : S.requests[x].status # "absent"}

\* the issues of the request files whose status is pending
get_pending_decomposition_requests(S) ==
  {x \in DOMAIN S.requests : S.requests[x].status = "pending"}

has_pending_work_for_initializer(S) == get_pending_decomposition_requests(S) # {}

\* variant of clear_processed_decomposition_requests that deletes every request file
clear_processed_decomposition_requests_all(S) ==
  [S |-> [S EXCEPT !.requests = [x \in DOMAIN S.requests |-> AbsentRequest]],
   cleared |-> Cardinality({x \in DOMAIN S.requests : S.requests[x].status # "absent"})]

\* unlink of every request file whose status is processed; cleared is the count returned
clear_processed_decomposition_requests(S) ==
  [S |-> [S EXCEPT !.requests = [x \in DOMAIN S.requests |->
            IF S.requests[x].status = "processed" THEN AbsentRequest ELSE S.requests[x]]],
   cleared |-> Cardinality({x \in DOMAIN S.requests : S.requests[x].status = "processed"})]

\* ---- cleanup ----
RECURSIVE release_claims(_, _, _)
release_claims(S, w, xs) ==
  IF xs = <<>> THEN S ELSE release_claims(release_claim(S, w, Head(xs)), w, Tail(xs))

\* variant of cleanup that releases the audit lock only when it held no init lock
cleanup_one_role(S, w) ==
  LET S1 == IF S.holds_init_lock[w] THEN release_init_lock(S, w) ELSE S
      S2 == IF ~S.holds_init_lock[w] /\ S1.holds_audit_lock[w]
            THEN release_audit_lock(S1, w) ELSE S1
      S3 == release_claims(S2, w, S2.claimed_issues[w])
      S4 == release_files(S3, w, S3.claimed_files[w])
  IN [S4 EXCEPT !.hb[w] = AbsentWorker, !.registered[w] = FALSE]

cleanup(S, w) ==
  LET S1 == IF S.holds_init_lock[w] THEN release_init_lock(S, w) ELSE S
      S2 == IF S1.holds_audit_lock[w] THEN release_audit_lock(S1, w) ELSE S1
      S3 == release_claims(S2, w, S2.claimed_issues[w])
      S4 == release_files(S3, w, S3.claimed_files[w])
  IN [S4 EXCEPT !.hb[w] = AbsentWorker, !.registered[w] = FALSE]

\* ---- passage of time: every stamp grows d seconds older ----
\* an age beyond the constant it is compared with no longer grows
Older(age, timeout, d) == IF age > timeout THEN age ELSE age + d

sleep(S, d) ==
  [S EXCEPT
     !.hb = [v \in DOMAIN S.hb |->
               IF S.hb[v].state = "ok"
               THEN [S.hb[v] EXCEPT !.age = Older(@, HEARTBEAT_TIMEOUT_SECONDS, d)]
               ELSE S.hb[v]],
     !.claims = [x \in DOMAIN S.claims |->
               IF S.claims[x].state = "ok"
               THEN [S.claims[x] EXCEPT !.age = Older(@, CLAIM_STALE_TIMEOUT_SECONDS, d)]
               ELSE S.claims[x]],
     !.locks = [p \in DOMAIN S.locks |->
               IF S.locks[p].state = "ok"
               THEN [S.locks[p] EXCEPT !.age = Older(@, CLAIM_STALE_TIMEOUT_SECONDS, d)]
               ELSE S.locks[p]],
     !.init_lock = IF @.state = "ok"
                   THEN [@ EXCEPT !.age = Older(@, INIT_LOCK_TIMEOUT_SECONDS, d)] ELSE @,
     !.audit_lock = IF @.state = "ok"
                    THEN [@ EXCEPT !.age = Older(@, AUDIT_LOCK_TIMEOUT_SECONDS, d)] ELSE @]

\* ---- the operation completed by the latest step ----
\* prev and prev_w: the role operation completed just before this one, and its worker;
\* for request_decomposition, the status and the requester of the request it replaced
NoOp == [op |-> "none", w |-> None, issue |-> None, files |-> <<>>,
         ok |-> FALSE, raised |-> FALSE, conflicts |-> <<>>,
         prev |-> "none", prev_w |-> None, reason |-> None, breakdown |-> <<>>,
         created |-> <<>>, cleared |-> 0]
Op(name, w) == [NoOp EXCEPT !.op = name, !.w = w]

Init ==
  /\ hb = [w \in AllWorkers |-> AbsentWorker]
  /\ claims = [x \in Issues |-> AbsentClaim]
  /\ locks = [p \in Paths |-> AbsentLock]
  /\ init_lock = AbsentRole
  /\ audit_lock = AbsentRole
  /\ requests = [x \in Issues |-> AbsentRequest]
  /\ write_fails = FALSE
  /\ registered = [w \in AllWorkers |-> FALSE]
  /\ claimed_issues = [w \in AllWorkers |-> <<>>]
  /\ claimed_files = [w \in AllWorkers |-> <<>>]
  /\ holds_init_lock = [w \in AllWorkers |-> FALSE]
  /\ holds_audit_lock = [w \in AllWorkers |-> FALSE]
  /\ call = [w \in AllWorkers |-> Idle]
  /\ last = NoOp
  /\ scen = "none"

\* ---- whole calls as single steps; a worker makes one call at a time ----
Register(w) ==
  /\ ~registered[w]
  /\ call[w].pc = "idle"
  /\ Apply(register(St, w))
  /\ last' = NoOp
  /\ UNCHANGED <<call, scen>>

\* one turn of heartbeat_loop
Heartbeat(w) ==
  /\ registered[w]
  /\ call[w].pc = "idle"
  /\ Apply(_update_heartbeat(St, w))
  /\ last' = NoOp
  /\ UNCHANGED <<call, scen>>

\* d seconds pass
Tick(d) ==
  /\ Apply(sleep(St, d))
  /\ last' = NoOp
  /\ UNCHANGED <<call, scen>>

TryClaimIssue(w, x) ==
  /\ registered[w]
  /\ call[w].pc = "idle"
  /\ LET r == try_claim_issue(St, w, x) IN
     /\ Apply(r.S)
     /\ last' = [Op("try_claim_issue", w) EXCEPT
                   !.issue = x, !.ok = r.L.ok, !.raised = r.L.raised]
  /\ UNCHANGED <<call, scen>>

TryClaimIssueWithFiles(w, x, fs) ==
  /\ registered[w]
  /\ call[w].pc = "idle"
  /\ LET r == try_claim_issue_with_files(St, w, x, fs) IN
     /\ Apply(r.S)
     /\ last' = [Op("try_claim_issue_with_files", w) EXCEPT
                   !.issue = x, !.files = fs, !.ok = r.L.ok, !.conflicts = r.L.conflicts]
  /\ UNCHANGED <<call, scen>>

ReleaseClaim(w, x) ==
  /\ registered[w]
  /\ call[w].pc = "idle"
  /\ Apply(release_claim(St, w, x))
  /\ last' = [Op("release_claim", w) EXCEPT !.issue = x]
  /\ UNCHANGED <<call, scen>>

Cleanup(w) ==
  /\ registered[w]
  /\ call[w].pc = "idle"
  /\ Apply(cleanup(St, w))
  /\ last' = NoOp
  /\ UNCHANGED <<call, scen>>

TryClaimInitLock(w) ==
  /\ registered[w]
  /\ call[w].pc = "idle"
  /\ LET r == try_claim_init_lock(St, w) IN
     /\ Apply(r.S)
     /\ last' = [Op("try_claim_init_lock", w) EXCEPT
                   !.ok = r.L.ok, !.prev = last.op, !.prev_w = last.w]
  /\ UNCHANGED <<call, scen>>

ReleaseInitLock(w) ==
  /\ registered[w]
  /\ call[w].pc = "idle"
  /\ Apply(release_init_lock(St, w))
  /\ last' = [Op("release_init_lock", w) EXCEPT !.ok = holds_init_lock[w]]
  /\ UNCHANGED <<call, scen>>

TryClaimAuditLock(w) ==
  /\ registered[w]
  /\ call[w].pc = "idle"
  /\ LET r == try_claim_audit_lock(St, w) IN
     /\ Apply(r.S)
     /\ last' = [Op("try_claim_audit_lock", w) EXCEPT
                   !.ok = r.L.ok, !.prev = last.op, !.prev_w = last.w]
  /\ UNCHANGED <<call, scen>>

ReleaseAuditLock(w) ==
  /\ registered[w]
  /\ call[w].pc = "idle"
  /\ Apply(release_audit_lock(St, w))
  /\ last' = [Op("release_audit_lock", w) EXCEPT !.ok = holds_audit_lock[w]]
  /\ UNCHANGED <<call, scen>>

\* a pause long enough for every unrefreshed heartbeat and claim to go stale
LongPause == CLAIM_STALE_TIMEOUT_SECONDS + HEARTBEAT_INTERVAL_SECONDS

\* the file lists callers pass in the whole-call specification: non-empty, paths ascending
CallLists == {fs \in FileLists \ {<<>>} : \A i, j \in 1..Len(fs) : i < j => fs[i] < fs[j]}

\* issue claims, heartbeats and sweeps, time in heartbeat intervals
NextClaims ==
  \/ \E w \in Workers : Register(w)
  \/ \E w \in Workers : Heartbeat(w)
  \/ Tick(HEARTBEAT_INTERVAL_SECONDS)
  \/ \E w \in Workers, x \in Issues : TryClaimIssue(w, x)
  \/ \E w \in Workers, x \in Issues : ReleaseClaim(w, x)
  \/ \E w \in Workers : Cleanup(w)

SpecClaims == Init /\ [][NextClaims]_vars

\* issue claims with file locks, time in long pauses
Next ==
  \/ \E w \in Workers : Register(w)
  \/ \E w \in Workers : Heartbeat(w)
  \/ Tick(LongPause)
  \/ \E w \in Workers, x \in FileIssues : TryClaimIssue(w, x)
  \/ \E w \in Workers, x \in FileIssues, fs \in CallLists : TryClaimIssueWithFiles(w, x, fs)
  \/ \E w \in Workers, x \in FileIssues : ReleaseClaim(w, x)
  \/ \E w \in Workers : Cleanup(w)

Spec == Init /\ [][Next]_vars

\* singleton roles, whole calls, time in long pauses
NextRole ==
  \/ \E w \in Workers : Register(w)
  \/ \E w \in Workers : Heartbeat(w)
  \/ Tick(LongPause)
  \/ \E w \in Workers : TryClaimInitLock(w)
  \/ \E w \in Workers : ReleaseInitLock(w)
  \/ \E w \in Workers : TryClaimAuditLock(w)
  \/ \E w \in Workers : ReleaseAuditLock(w)
  \/ \E w \in Workers : Cleanup(w)

SpecRole == Init /\ [][NextRole]_vars

\* ---- try_claim_issue step by step: the race for one claim file ----
\* heartbeat of a worker that stopped refreshing it a full timeout ago
LapsedWorker == [state |-> "ok", age |-> HEARTBEAT_TIMEOUT_SECONDS,
                 claimed_issues |-> <<>>, claimed_files |-> <<>>]

\* the racers in live are registered with fresh heartbeats; every claim file is absent,
\* unparsable, or names a worker outside live whose heartbeat is missing or lapsed
InitRace ==
  \E live \in (SUBSET Racers) \ {{}}, kind \in {"absent", "stale", "corrupt"},
     dead \in Racers, dhb \in {AbsentWorker, LapsedWorker} :
    /\ kind = "stale" => dead \notin live
    /\ kind # "stale" => dead = 1 /\ dhb = AbsentWorker
    /\ hb = [w \in AllWorkers |->
               IF w \in live THEN [LapsedWorker EXCEPT !.age = 0]
               ELSE IF kind = "stale" /\ w = dead THEN dhb ELSE AbsentWorker]
    /\ claims = [x \in Issues |->
               IF kind = "absent" THEN AbsentClaim
               ELSE IF kind = "corrupt" THEN CorruptClaim
               ELSE [state |-> "ok", worker_id |-> dead,
                     age |-> HEARTBEAT_TIMEOUT_SECONDS, files |-> <<>>]]
    /\ locks = [p \in Paths |-> AbsentLock]
    /\ init_lock = AbsentRole
    /\ audit_lock = AbsentRole
    /\ requests = [x \in Issues |-> AbsentRequest]
    /\ write_fails = FALSE
    /\ registered = [w \in AllWorkers |-> w \in live]
    /\ claimed_issues = [w \in AllWorkers |-> <<>>]
    /\ claimed_files = [w \in AllWorkers |-> <<>>]
    /\ holds_init_lock = [w \in AllWorkers |-> FALSE]
    /\ holds_audit_lock = [w \in AllWorkers |-> FALSE]
    /\ call = [w \in AllWorkers |-> Idle]
    /\ last = NoOp
    /\ scen = kind

\* worker w enters try_claim_issue(x)
RaceCall(w, x) ==
  /\ registered[w]
  /\ call[w].pc = "idle"
  /\ call' = [call EXCEPT ![w] = [Idle EXCEPT !.pc = "tci_exists", !.op = "try_claim_issue",
                                              !.issue = x]]
  /\ UNCHANGED <<hb, claims, locks, init_lock, audit_lock, requests, write_fails, registered,
                 claimed_issues,
                 claimed_files, holds_init_lock, holds_audit_lock, last, scen>>

\* worker w performs its next file system step
RaceStep(w) ==
  /\ call[w].op = "try_claim_issue"
  /\ call[w].pc # "done"
  /\ LET r == tci_step(St, w, call[w]) IN
     /\ Apply(r.S)
     /\ call' = [call EXCEPT ![w] = r.L]
  /\ UNCHANGED <<last, scen>>

NextRace ==
  \/ \E w \in Racers, x \in Issues : RaceCall(w, x)
  \/ \E w \in Racers : RaceStep(w)

SpecRace == InitRace /\ [][NextRace]_vars

\* the calls of try_claim_issue(x) that have returned, and those that returned True
Returned(x) == {w \in Racers : call[w].pc = "done" /\ call[w].issue = x}
Winners(x) == {w \in Returned(x) : call[w].ok}

\* C1: from a state without a claim file for X, once every registered worker has called
\* try_claim_issue(X) and returned, exactly one of the calls returned True.
C1_ExactlyOneWinner ==
  \A x \in Issues :
    (scen = "absent" /\ Returned(x) = {w \in Racers : registered[w]})
      => Cardinality(Winners(x)) = 1

\* C2: when the claim file of X was stale or corrupt as the calls began, at most one
\* of the concurrent calls try_claim_issue(X) returns True.
C2_AtMostOneReclaims ==
  \A x \in Issues :
    scen \in {"stale", "corrupt"} => Cardinality(Winners(x)) <= 1

\* ---- claims about issue claims, whole calls ----
\* registered workers whose heartbeat is fresh
Live == {w \in AllWorkers : registered[w] /\ w \in get_active_workers(St)}

\* C3: in every reachable state, for every issue at most one registered worker with a
\* fresh heartbeat has the issue in its own claim set.
C3_OneLiveClaimant ==
  \A x \in Issues :
    Cardinality({w \in Live : InSeq(x, claimed_issues[w])}) <= 1

\* ---- claims about try_claim_issue_with_files, whole calls ----
\* the paths of fs, in order, whose lock file names a worker other than w with a fresh heartbeat
LockedByOthers(w, fs) ==
  LET held(p) == /\ locks[p].state = "ok"
                 /\ locks[p].worker_id # w
                 /\ hb[locks[p].worker_id].state = "ok"
                 /\ hb[locks[p].worker_id].age < HEARTBEAT_TIMEOUT_SECONDS
  IN SelectSeq(fs, held)

\* the step is a call try_claim_issue_with_files by w that found a path locked by another
ConflictingCall(w) ==
  /\ last'.op = "try_claim_issue_with_files"
  /\ last'.w = w
  /\ LockedByOthers(w, last'.files) # <<>>

\* C4 as stated: the call returns (False, the locked paths), and afterwards
\* is_issue_claimed(X) is None and the caller has no lock file it did not have before.
C4_ConflictLeavesUnclaimed ==
  [][\A w \in Workers :
       ConflictingCall(w) =>
         /\ ~last'.ok
         /\ last'.conflicts = LockedByOthers(w, last'.files)
         /\ is_issue_claimed(St', last'.issue) = None
         /\ \A p \in SeqSet(last'.files) :
              (locks'[p].state = "ok" /\ locks'[p].worker_id = w)
                => (locks[p].state = "ok" /\ locks[p].worker_id = w)]_vars

\* C4 amended: the call returns (False, the locked paths) and changes no file and no
\* worker's memory, so is_issue_claimed(X) answers afterwards what it answered before.
C4_ConflictChangesNothing ==
  [][\A w \in Workers :
       ConflictingCall(w) =>
         /\ ~last'.ok
         /\ last'.conflicts = LockedByOthers(w, last'.files)
         /\ St' = St]_vars

\* a call was refused for one of its two paths while its issue was unclaimed
C4_Witness ==
  /\ last.op = "try_claim_issue_with_files"
  /\ ~last.ok
  /\ Len(last.files) = 2
  /\ Len(last.conflicts) = 1
  /\ last.conflicts = LockedByOthers(last.w, last.files)
  /\ is_issue_claimed(St, last.issue) = None

\* ---- try_claim_issue_with_files step by step ----
\* every worker is registered with a fresh heartbeat and nothing is claimed
InitRegistered ==
  /\ hb = [w \in AllWorkers |->
             IF w \in Workers THEN [LapsedWorker EXCEPT !.age = 0] ELSE AbsentWorker]
  /\ claims = [x \in Issues |-> AbsentClaim]
  /\ locks = [p \in Paths |-> AbsentLock]
  /\ init_lock = AbsentRole
  /\ audit_lock = AbsentRole
  /\ requests = [x \in Issues |-> AbsentRequest]
  /\ write_fails = FALSE
  /\ registered = [w \in AllWorkers |-> w \in Workers]
  /\ claimed_issues = [w \in AllWorkers |-> <<>>]
  /\ claimed_files = [w \in AllWorkers |-> <<>>]
  /\ holds_init_lock = [w \in AllWorkers |-> FALSE]
  /\ holds_audit_lock = [w \in AllWorkers |-> FALSE]
  /\ call = [w \in AllWorkers |-> Idle]
  /\ last = NoOp
  /\ scen = "none"

\* worker w enters try_claim_issue_with_files(x, fs)
FilesCall(w, x, fs) ==
  /\ registered[w]
  /\ call[w].pc = "idle"
  /\ call' = [call EXCEPT ![w] = [Idle EXCEPT !.pc = "cwf_check",
                                              !.op = "try_claim_issue_with_files",
                                              !.issue = x, !.files = fs]]
  /\ UNCHANGED <<hb, claims, locks, init_lock, audit_lock, requests, write_fails, registered,
                 claimed_issues,
                 claimed_files, holds_init_lock, holds_audit_lock, last, scen>>

\* worker w performs the next operation of its call
FilesStep(w) ==
  /\ call[w].op = "try_claim_issue_with_files"
  /\ call[w].pc # "done"
  /\ LET r == cwf_step(St, w, call[w]) IN
     /\ Apply(r.S)
     /\ call' = [call EXCEPT ![w] = r.L]
  /\ UNCHANGED <<last, scen>>

\* every worker makes one call; idle workers keep their heartbeat loop, and time passes
NextFiles ==
  \/ \E w \in Workers, x \in Issues, fs \in FileLists : FilesCall(w, x, fs)
  \/ \E w \in Workers : FilesStep(w)
  \/ \E w \in Workers : Heartbeat(w)
  \/ Tick(LongPause)

SpecFiles == InitRegistered /\ [][NextFiles]_vars

\* the call of w has returned failure from the loop over its paths
FailedInLoop(w) ==
  /\ call[w].op = "try_claim_issue_with_files"
  /\ call[w].pc = "done"
  /\ ~call[w].ok
  /\ call[w].i >= 1

NamesWorker(f, w) == f.state \in {"ok", "empty"} /\ f.worker_id = w

\* C5: when a path is lost to a concurrent claimant after the pre-flight check, the call
\* returns (False, [that path]), and on return no lock file created during the call and
\* no claim file of the issue names the caller, wherever the path stands in files.
C5_RollbackIsComplete ==
  \A w \in Workers :
    FailedInLoop(w) =>
      /\ call[w].conflicts = <<call[w].files[call[w].i]>>
      /\ \A p \in call[w].made : ~NamesWorker(locks[p], w)
      /\ ~NamesWorker(claims[call[w].issue], w)

\* a call failed on its second path after it had created the lock of its first
C5_Witness ==
  \E w \in Workers :
    /\ FailedInLoop(w)
    /\ call[w].i = 2
    /\ call[w].made # {}

\* ---- claims about release_claim, whole calls ----
\* the step is release_claim(X) by the worker whose try_claim_issue_with_files(X, files)
\* has just returned success
ReleaseAfterSuccess ==
  /\ last.op = "try_claim_issue_with_files"
  /\ last.ok
  /\ last'.op = "release_claim"
  /\ last'.w = last.w
  /\ last'.issue = last.issue

\* C6: after a successful try_claim_issue_with_files(X, files) and release_claim(X) by the
\* same worker, the claim file of X and the lock file of every path of files are gone:
\* is_issue_claimed(X) is None and check_file_conflicts(files) is empty for every worker.
C6_ReleaseCascade ==
  [][ReleaseAfterSuccess =>
       /\ claims'[last.issue].state = "absent"
       /\ \A p \in SeqSet(last.files) : locks'[p].state = "absent"
       /\ is_issue_claimed(St', last.issue) = None
       /\ \A v \in Workers : check_file_conflicts(St', v, last.files) = <<>>]_vars

\* the step is release_claim(X) by w while the claim file of X names another worker
\* whose heartbeat is fresh
ReleaseByNonOwner(w) ==
  /\ last'.op = "release_claim"
  /\ last'.w = w
  /\ claims[last'.issue].state = "ok"
  /\ claims[last'.issue].worker_id # w
  /\ claims[last'.issue].worker_id \in get_active_workers(St)

\* C7: release_claim(X) by a worker that is not the owner named in the claim file of X,
\* the owner being live, leaves the claim file and every file lock it lists unchanged.
C7_ReleaseIsOwnershipGated ==
  [][\A w \in Workers :
       ReleaseByNonOwner(w) =>
         /\ claims'[last'.issue] = claims[last'.issue]
         /\ \A p \in SeqSet(claims[last'.issue].files) : locks'[p] = locks[p]]_vars

\* a worker has called release_claim on an issue that a live peer holds with a file lock
C7_Witness ==
  /\ last.op = "release_claim"
  /\ claims[last.issue].state = "ok"
  /\ claims[last.issue].worker_id # last.w
  /\ claims[last.issue].worker_id \in get_active_workers(St)
  /\ \E p \in SeqSet(claims[last.issue].files) :
       locks[p].state = "ok" /\ locks[p].worker_id = claims[last.issue].worker_id

\* ---- claims about the init lock, whole calls ----
\* the init lock file names w, whose heartbeat is fresh, and is within its time limit
InitLockLive(w) ==
  /\ init_lock.state = "ok"
  /\ init_lock.worker_id = w
  /\ w \in get_active_workers(St)
  /\ init_lock.age <= INIT_LOCK_TIMEOUT_SECONDS

\* the step is try_claim_init_lock by v
InitTry(v) == last'.op = "try_claim_init_lock" /\ last'.w = v

\* the step is release_init_lock by w
InitRelease(w) == last'.op = "release_init_lock" /\ last'.w = w

\* C9 as stated: after release_init_lock by the worker that holds the init lock the lock
\* file is gone, and the next try_claim_init_lock by another registered worker returns
\* True; before the release, another worker's try_claim_init_lock returns False.
C9_HandOver ==
  [][\A w, v \in Workers :
       /\ (InitRelease(w) /\ holds_init_lock[w]) => init_lock'.state = "absent"
       /\ (InitTry(v) /\ v # w /\ last.op = "release_init_lock" /\ last.w = w /\ last.ok)
            => last'.ok
       /\ (InitTry(v) /\ v # w /\ holds_init_lock[w] /\ ~holds_init_lock[v])
            => ~last'.ok]_vars

\* C9 amended: after release_init_lock by the holder that the lock file names, the lock
\* file is gone and the next try_claim_init_lock by another registered worker returns
\* True; before the release, while the lock is live (its owner's heartbeat is fresh and
\* it is at most 300 s old), try_claim_init_lock by a worker that does not hold the lock
\* returns False and leaves the lock file as it is.
C9_HandOverWhileLive ==
  [][\A w, v \in Workers :
       /\ (InitRelease(w) /\ holds_init_lock[w] /\ NamesWorker(init_lock, w))
            => init_lock'.state = "absent"
       /\ (InitTry(v) /\ v # w /\ last.op = "release_init_lock" /\ last.w = w /\ last.ok
             /\ init_lock.state = "absent")
            => (last'.ok /\ (~holds_init_lock[v] => NamesWorker(init_lock', v)))
       /\ (InitTry(v) /\ v # w /\ holds_init_lock[w] /\ InitLockLive(w)
             /\ ~holds_init_lock[v])
            => (~last'.ok /\ init_lock' = init_lock)]_vars

\* a worker has acquired the init lock right after the holder released it
C9_Witness ==
  /\ last.op = "try_claim_init_lock"
  /\ last.prev = "release_init_lock"
  /\ last.prev_w # last.w
  /\ last.prev_w # None
  /\ last.ok
  /\ NamesWorker(init_lock, last.w)
  /\ ~holds_init_lock[last.prev_w]

\* a worker has been refused the init lock that a live holder has
C9_WitnessRefused ==
  /\ last.op = "try_claim_init_lock"
  /\ ~last.ok
  /\ \E w \in Workers : w # last.w /\ holds_init_lock[w] /\ InitLockLive(w)

\* ---- try_claim_init_lock and try_claim_audit_lock step by step ----
\* worker w enters try_claim_init_lock or try_claim_audit_lock
RoleCall(w, r) ==
  /\ registered[w]
  /\ call[w].pc = "idle"
  /\ call' = [call EXCEPT ![w] = [Idle EXCEPT !.pc = "rl_entry", !.role = r,
                                              !.op = IF r = "init" THEN "try_claim_init_lock"
                                                     ELSE "try_claim_audit_lock"]]
  /\ UNCHANGED <<hb, claims, locks, init_lock, audit_lock, requests, write_fails, registered,
                 claimed_issues,
                 claimed_files, holds_init_lock, holds_audit_lock, last, scen>>

\* worker w performs its next file system step
RoleStep(w) ==
  /\ call[w].role # "none"
  /\ call[w].pc # "done"
  /\ LET r == rl_step(St, w, call[w]) IN
     /\ Apply(r.S)
     /\ call' = [call EXCEPT ![w] = r.L]
  /\ UNCHANGED <<last, scen>>

\* the caller takes the result and is ready for its next call
RoleReturn(w) ==
  /\ call[w].role # "none"
  /\ call[w].pc = "done"
  /\ call' = [call EXCEPT ![w] = Idle]
  /\ UNCHANGED <<hb, claims, locks, init_lock, audit_lock, requests, write_fails, registered,
                 claimed_issues,
                 claimed_files, holds_init_lock, holds_audit_lock, last, scen>>

\* no time passes: every heartbeat stays fresh and no lock grows old
NextRoleRace ==
  \/ \E w \in Workers, r \in {"init", "audit"} : RoleCall(w, r)
  \/ \E w \in Workers : RoleStep(w)
  \/ \E w \in Workers : RoleReturn(w)
  \/ \E w \in Workers : ReleaseInitLock(w)
  \/ \E w \in Workers : ReleaseAuditLock(w)

SpecRoleRace == InitRegistered /\ [][NextRoleRace]_vars

\* C8: in every reachable state, for each of the roles init and audit, at most one
\* registered worker holds it (its try_claim returned True and it has not released since).
C8_OneHolderPerRole ==
  /\ Cardinality({w \in AllWorkers : registered[w] /\ holds_init_lock[w]}) <= 1
  /\ Cardinality({w \in AllWorkers : registered[w] /\ holds_audit_lock[w]}) <= 1

\* ---- claims about reclaiming a stale issue claim, whole calls ----
\* the step is try_claim_issue(X) by w while the claim file of X names an owner that
\* has no heartbeat file or a heartbeat that is not fresh
ReclaimCall(w) ==
  /\ last'.op = "try_claim_issue"
  /\ last'.w = w
  /\ claims[last'.issue].state = "ok"
  /\ claims[last'.issue].worker_id \notin get_active_workers(St)

\* C10: try_claim_issue(X) on a claim file whose owner has no fresh heartbeat returns
\* True, and afterwards the claim file names the caller.
C10_StaleClaimIsReclaimed ==
  [][\A w \in Workers :
       ReclaimCall(w) => (last'.ok /\ NamesWorker(claims'[last'.issue], w))]_vars

\* ---- a claim file that does not parse ----
\* garbage bytes in claims/<issue>.claim, written from outside the coordinator (or left
\* by a process killed between os.open and os.write)
Garble(x) ==
  /\ claims[x].state # "corrupt"
  /\ claims' = [claims EXCEPT ![x] = CorruptClaim]
  /\ last' = NoOp
  /\ UNCHANGED <<hb, locks, init_lock, audit_lock, requests, write_fails, registered,
                 claimed_issues,
                 claimed_files, holds_init_lock, holds_audit_lock, call, scen>>

\* issue claims, whole calls, with claim files that turn into garbage
NextGarble ==
  \/ \E w \in Workers : Register(w)
  \/ \E w \in Workers : Heartbeat(w)
  \/ Tick(LongPause)
  \/ \E w \in Workers, x \in Issues : TryClaimIssue(w, x)
  \/ \E w \in Workers, x \in Issues : ReleaseClaim(w, x)
  \/ \E x \in Issues : Garble(x)

SpecGarble == Init /\ [][NextGarble]_vars

\* the step is try_claim_issue(X) by w while the claim file of X exists and does not parse
CorruptCall(w) ==
  /\ last'.op = "try_claim_issue"
  /\ last'.w = w
  /\ claims[last'.issue].state = "corrupt"

\* C11: try_claim_issue(X) by a registered worker on a claim file that does not parse
\* deletes the file, creates a new claim that names the caller, and returns True.
C11_CorruptClaimIsReplaced ==
  [][\A w \in Workers :
       CorruptCall(w) =>
         /\ last'.ok
         /\ claims'[last'.issue] =
              [state |-> "ok", worker_id |-> w, age |-> 0, files |-> <<>>]]_vars

\* ---- claims about a repeated try_claim_issue, whole calls ----
\* the step is try_claim_issue(X) by w, which has X in its claim set
RepeatCall(w) ==
  /\ last'.op = "try_claim_issue"
  /\ last'.w = w
  /\ InSeq(last'.issue, claimed_issues[w])

\* C12: a second try_claim_issue(X) by the worker that holds X returns True and changes
\* nothing: no file is created or rewritten (the claim file keeps owner and claimed_at),
\* and X occurs exactly once in the worker's claim set.
C12_RepeatChangesNothing ==
  [][\A w \in Workers :
       RepeatCall(w) =>
         /\ last'.ok
         /\ St' = St
         /\ Cardinality({i \in 1..Len(claimed_issues'[w]) :
                           claimed_issues'[w][i] = last'.issue}) = 1]_vars

\* a holder has called try_claim_issue again on the claim it made some time ago
C12_Witness ==
  /\ last.op = "try_claim_issue"
  /\ last.ok
  /\ InSeq(last.issue, claimed_issues[last.w])
  /\ NamesWorker(claims[last.issue], last.w)
  /\ claims[last.issue].age > 0

\* ---- calls of a worker that is not registered ----
\* cleanup() at any time, also by a worker that is not registered; ok: it was registered
Shutdown(w) ==
  /\ call[w].pc = "idle"
  /\ Apply(cleanup(St, w))
  /\ last' = [Op("cleanup", w) EXCEPT
                !.ok = registered[w], !.prev = last.op, !.prev_w = last.w]
  /\ UNCHANGED <<call, scen>>

RequestDecomposition(w, x, reason, suggested_breakdown) ==
  /\ registered[w]
  /\ call[w].pc = "idle"
  /\ LET r == request_decomposition(St, w, x, reason, suggested_breakdown) IN
     /\ Apply(r.S)
     /\ last' = [Op("request_decomposition", w) EXCEPT
                   !.issue = x, !.ok = r.L.ok, !.raised = r.L.raised,
                   !.reason = reason, !.breakdown = suggested_breakdown,
                   !.prev = requests[x].status, !.prev_w = requests[x].requested_by]
  /\ UNCHANGED <<call, scen>>

\* the methods that begin with the check of self._registered
GuardedMethods ==
  {"try_claim_issue", "try_claim_issue_with_files", "try_claim_init_lock",
   "try_claim_audit_lock", "request_decomposition"}

\* a worker that is not registered calls method m
CallUnregistered(w, m, x, fs) ==
  /\ ~registered[w]
  /\ call[w].pc = "idle"
  /\ LET r == CASE m = "try_claim_issue" -> try_claim_issue(St, w, x)
                [] m = "try_claim_issue_with_files" -> try_claim_issue_with_files(St, w, x, fs)
                [] m = "try_claim_init_lock" -> try_claim_init_lock(St, w)
                [] m = "try_claim_audit_lock" -> try_claim_audit_lock(St, w)
                [] m = "request_decomposition" -> request_decomposition(St, w, x, x, fs)
     IN /\ Apply(r.S)
        /\ last' = [Op(m, w) EXCEPT !.issue = x, !.files = fs, !.ok = r.L.ok,
                                    !.raised = r.L.raised,
                                    !.prev = last.op, !.prev_w = last.w]
  /\ UNCHANGED <<call, scen>>

\* workers register, claim, request and shut down, and call while they are not registered;
\* the reason and the breakdown of a request are of no account here
NextUnregistered ==
  \/ \E w \in Workers : Register(w)
  \/ \E w \in Workers, x \in FileIssues, fs \in CallLists : TryClaimIssueWithFiles(w, x, fs)
  \/ \E w \in Workers : TryClaimInitLock(w)
  \/ \E w \in Workers : TryClaimAuditLock(w)
  \/ \E w \in Workers, x \in FileIssues : RequestDecomposition(w, x, x, <<>>)
  \/ \E w \in Workers : Shutdown(w)
  \/ \E w \in Workers, m \in GuardedMethods, x \in FileIssues, fs \in CallLists :
       CallUnregistered(w, m, x, fs)

SpecUnregistered == Init /\ [][NextUnregistered]_vars

\* C13: a call of try_claim_issue, try_claim_issue_with_files, try_claim_init_lock,
\* try_claim_audit_lock or request_decomposition by a worker that is not registered (it
\* never registered, or it has called cleanup since) raises an error and changes no file
\* and no worker's in-memory claim set.
C13_UnregisteredCallsRaise ==
  [][\A w \in Workers :
       (~registered[w] /\ last'.w = w /\ last'.op \in GuardedMethods)
         => (last'.raised /\ St' = St)]_vars

\* a worker that has shut down was refused a call while a peer holds claims and locks
C13_Witness ==
  /\ last.op \in GuardedMethods
  /\ last.raised
  /\ last.prev = "cleanup"
  /\ last.prev_w = last.w
  /\ ~registered[last.w]
  /\ \E v \in Workers, x \in Issues : v # last.w /\ NamesWorker(claims[x], v)

\* ---- claims about file locks, whole calls ----
\* C14: in every reachable state, for every path at most one registered worker with a
\* fresh heartbeat has the path in its held-file set.
C14_OneLiveLockHolder ==
  \A p \in Paths :
    Cardinality({w \in Live : InSeq(p, claimed_files[w])}) <= 1

\* ---- cleanup from the SIGINT handler ----
\* the caller of try_claim_issue takes the result and is ready for its next call
RaceReturn(w) ==
  /\ call[w].op = "try_claim_issue"
  /\ call[w].pc = "done"
  /\ call' = [call EXCEPT ![w] = Idle]
  /\ UNCHANGED <<hb, claims, locks, init_lock, audit_lock, requests, write_fails, registered,
                 claimed_issues, claimed_files, holds_init_lock, holds_audit_lock, last, scen>>

\* _signal_handler: SIGINT arrives between two steps of whatever the worker is executing
\* (or while it is between calls); the handler runs cleanup() and the process exits
Interrupt(w) ==
  /\ registered[w]
  /\ call[w].pc # "exited"
  /\ Apply(cleanup(St, w))
  /\ call' = [call EXCEPT ![w] = [Idle EXCEPT !.pc = "exited"]]
  /\ UNCHANGED <<last, scen>>

NextInterrupt ==
  \/ \E w \in Workers, x \in Issues : RaceCall(w, x)
  \/ \E w \in Workers : RaceStep(w)
  \/ \E w \in Workers : RaceReturn(w)
  \/ \E w \in Workers : Interrupt(w)

SpecInterrupt == InitRegistered /\ [][NextInterrupt]_vars

\* C15: when cleanup() returns, at shutdown or from the SIGINT handler at any point of
\* the worker's execution, no claim file, file lock, init lock or audit lock names the
\* worker, its heartbeat file is absent and it is unregistered.
C15_CleanupLeavesNothing ==
  [][\A w \in Workers :
       (call[w].pc # "exited" /\ call'[w].pc = "exited") =>
         /\ \A x \in Issues : ~(claims'[x].state = "ok" /\ claims'[x].worker_id = w)
         /\ \A p \in Paths : ~(locks'[p].state = "ok" /\ locks'[p].worker_id = w)
         /\ ~(init_lock'.state = "ok" /\ init_lock'.worker_id = w)
         /\ ~(audit_lock'.state = "ok" /\ audit_lock'.worker_id = w)
         /\ hb'[w].state = "absent"
         /\ ~registered'[w]]_vars

\* ---- claims about cleanup, whole calls ----
\* the step is cleanup() by w directly after a cleanup() by w
SecondCleanup(w) ==
  /\ last.op = "cleanup"
  /\ last.w = w
  /\ last'.op = "cleanup"
  /\ last'.w = w
  /\ last'.prev = "cleanup"
  /\ last'.prev_w = w

\* C16: a second cleanup() directly after the first changes neither the shared directory
\* nor the worker's in-memory state (and the worker stays unregistered).
C16_CleanupIsIdempotent ==
  [][\A w \in Workers : SecondCleanup(w) => (St' = St /\ ~registered'[w])]_vars

\* a worker has called cleanup twice in a row while a peer holds a claim and a role
C16_Witness ==
  /\ last.op = "cleanup"
  /\ last.prev = "cleanup"
  /\ last.prev_w = last.w
  /\ \E v \in Workers, x \in Issues :
       /\ v # last.w
       /\ NamesWorker(claims[x], v)
       /\ (holds_init_lock[v] \/ holds_audit_lock[v])

\* ---- a worker that crashes ----
\* the process of w dies between two calls: it writes no heartbeat, makes no call and
\* never runs cleanup; its files stay. One worker at least stays alive.
Crash(w) ==
  /\ registered[w]
  /\ call[w].pc = "idle"
  /\ \A v \in Workers : call[v].pc # "crashed"
  /\ call' = [call EXCEPT ![w] = [Idle EXCEPT !.pc = "crashed"]]
  /\ last' = NoOp
  /\ UNCHANGED <<hb, claims, locks, init_lock, audit_lock, requests, write_fails, registered,
                 claimed_issues, claimed_files, holds_init_lock, holds_audit_lock, scen>>

\* heartbeat_loop of every worker of ws writes its heartbeat
RECURSIVE heartbeats(_, _)
heartbeats(S, ws) ==
  IF ws = {} THEN S
  ELSE LET w == CHOOSE v \in ws : TRUE IN heartbeats(_update_heartbeat(S, w), ws \ {w})

\* d seconds pass after a crash, and at their end the heartbeat loop of every worker that
\* is registered and alive has just written: only the crashed worker's heartbeat grows
\* old. Time is followed until that heartbeat is past its timeout.
Pause(d) ==
  /\ \E o \in Workers : /\ call[o].pc = "crashed"
                        /\ hb[o].state = "ok"
                        /\ hb[o].age <= HEARTBEAT_TIMEOUT_SECONDS
  /\ Apply(heartbeats(sleep(St, d), {w \in Workers : registered[w] /\ call[w].pc = "idle"}))
  /\ last' = NoOp
  /\ UNCHANGED <<call, scen>>

\* the file lists of the calls in the crash specification: one path each
OnePath == {<<p>> : p \in Paths}

\* claims, file locks and the init lock; time passes a heartbeat timeout at a time
NextCrash ==
  \/ \E w \in Workers : Register(w)
  \/ Pause(HEARTBEAT_TIMEOUT_SECONDS)
  \/ \E w \in Workers : Crash(w)
  \/ \E w \in Workers, x \in FileIssues, fs \in OnePath : TryClaimIssueWithFiles(w, x, fs)
  \/ \E w \in Workers : TryClaimInitLock(w)

SpecCrash == Init /\ [][NextCrash]_vars

\* o has crashed and its heartbeat is 90 s old or older, or gone
CrashedAndLapsed(o) ==
  /\ call[o].pc = "crashed"
  /\ (hb[o].state # "ok" \/ hb[o].age >= HEARTBEAT_TIMEOUT_SECONDS)

\* f is a file that names owner o
OwnedBy(f, o) == f.state = "ok" /\ f.worker_id = o

\* the step is try_claim_issue_with_files(x, fs) by v, where the claim of x or the lock of
\* a path of fs is held by the crashed worker o and nothing asked for is held by a live one
TakeOverFiles(v, o) ==
  /\ last'.op = "try_claim_issue_with_files"
  /\ last'.w = v
  /\ v # o
  /\ CrashedAndLapsed(o)
  /\ \/ OwnedBy(claims[last'.issue], o)
     \/ \E p \in SeqSet(last'.files) : OwnedBy(locks[p], o)
  /\ claims[last'.issue].state = "ok" => claims[last'.issue].worker_id \in {v, o}
  /\ LockedByOthers(v, last'.files) = <<>>

\* the step is try_claim_init_lock by v while the init lock names the crashed worker o
TakeOverInit(v, o) ==
  /\ last'.op = "try_claim_init_lock"
  /\ last'.w = v
  /\ v # o
  /\ CrashedAndLapsed(o)
  /\ OwnedBy(init_lock, o)

\* the latest step was an attempt on an issue by a worker other than o that no worker
\* with a fresh heartbeat stood against
FreeAttempt(o) ==
  /\ last.op = "try_claim_issue_with_files"
  /\ last.w # o
  /\ last.conflicts = <<>>
  /\ \A u \in Workers :
       (OwnedBy(claims[last.issue], u) /\ u # last.w)
         => (hb[u].state # "ok" \/ hb[u].age >= HEARTBEAT_TIMEOUT_SECONDS)

\* the latest step was an attempt on the init lock by a worker other than o
InitAttempt(o) == last.op = "try_claim_init_lock" /\ last.w # o

\* C17: once the heartbeat of a crashed worker is 90 s old, the next claim attempt of a
\* registered worker for an issue, file or role the crashed worker held acquires it (the
\* call returns True and, unless the caller already listed the resource as its own, the
\* file names the caller); and as long as live workers keep attempting, no issue and no
\* role stays with the dead worker forever.
C17_CrashedOwnerIsReplaced ==
  /\ [][\A v, o \in Workers :
         /\ TakeOverFiles(v, o) =>
              /\ last'.ok
              /\ InSeq(last'.issue, claimed_issues'[v])
              /\ ~InSeq(last'.issue, claimed_issues[v]) => OwnedBy(claims'[last'.issue], v)
              /\ \A p \in SeqSet(last'.files) :
                   /\ InSeq(p, claimed_files'[v])
                   /\ ~InSeq(p, claimed_files[v]) => OwnedBy(locks'[p], v)
         /\ TakeOverInit(v, o) =>
              /\ last'.ok
              /\ holds_init_lock'[v]
              /\ ~holds_init_lock[v] => OwnedBy(init_lock', v)]_vars
  /\ \A o \in Workers :
       ([]<>FreeAttempt(o))
         => ((call[o].pc = "crashed" /\ (\E x \in FileIssues : OwnedBy(claims[x], o)))
               ~> (FreeAttempt(o) /\ last.ok /\ ~OwnedBy(claims[last.issue], o)))
  /\ \A o \in Workers :
       ([]<>(CrashedAndLapsed(o) /\ InitAttempt(o)))
         => ((call[o].pc = "crashed" /\ OwnedBy(init_lock, o))
               ~> (InitAttempt(o) /\ last.ok))

\* a worker took over the issue and the path of a crashed worker whose heartbeat had
\* just reached 90 s
C17_Witness ==
  \E o \in Workers :
    /\ call[o].pc = "crashed"
    /\ hb[o].state = "ok"
    /\ hb[o].age = HEARTBEAT_TIMEOUT_SECONDS
    /\ last.op = "try_claim_issue_with_files"
    /\ last.ok
    /\ last.w # o
    /\ InSeq(last.issue, claimed_issues[o])
    /\ OwnedBy(claims[last.issue], last.w)
    /\ claims[last.issue].age = 0
    /\ \E p \in SeqSet(last.files) : InSeq(p, claimed_files[o]) /\ OwnedBy(locks[p], last.w)

\* ---- claims about deleting another worker's file, step by step ----
\* claim file c is dead: it does not parse, or its owner has no fresh heartbeat
DeadClaim(c) ==
  \/ c.state \in {"corrupt", "empty"}
  \/ c.state = "ok" /\ ~(hb[c.worker_id].state = "ok"
                         /\ hb[c.worker_id].age < HEARTBEAT_TIMEOUT_SECONDS)

\* C18: a step of worker w that deletes a claim file naming another worker deletes a file
\* that is dead at the moment of the deletion.
C18_OnlyDeadFilesDeleted ==
  [][\A w \in Racers, x \in Issues :
       (/\ call'[w] # call[w]
        /\ claims[x].state # "absent"
        /\ claims'[x].state = "absent"
        /\ claims[x].worker_id # w)
         => DeadClaim(claims[x])]_vars

\* ---- check_file_conflicts ----
\* garbage bytes in files/<path>.lock
GarbleLock(p) ==
  /\ locks[p].state # "corrupt"
  /\ locks' = [locks EXCEPT ![p] = CorruptLock]
  /\ last' = NoOp
  /\ UNCHANGED <<hb, claims, init_lock, audit_lock, requests, write_fails, registered,
                 claimed_issues,
                 claimed_files, holds_init_lock, holds_audit_lock, call, scen>>

\* check_file_conflicts(fs) by w: a query, it writes nothing
CheckFileConflicts(w, fs) ==
  /\ call[w].pc = "idle"
  /\ last' = [Op("check_file_conflicts", w) EXCEPT
                !.files = fs, !.conflicts = check_file_conflicts(St, w, fs)]
  /\ UNCHANGED <<hb, claims, locks, init_lock, audit_lock, requests, write_fails, registered,
                 claimed_issues, claimed_files, holds_init_lock, holds_audit_lock, call, scen>>

\* the lists the query is made with: all paths, in every order
FullLists == {fs \in FileLists : Len(fs) = NumPaths}

\* file locks that are taken, go stale and turn into garbage, and the query on them
NextConflicts ==
  \/ \E w \in Workers : Register(w)
  \/ \E w \in Workers : Heartbeat(w)
  \/ Tick(LongPause)
  \/ \E w \in Workers, x \in FileIssues, fs \in OnePath : TryClaimIssueWithFiles(w, x, fs)
  \/ \E p \in Paths : GarbleLock(p)
  \/ \E w \in Workers, fs \in FullLists : CheckFileConflicts(w, fs)

SpecConflicts == Init /\ [][NextConflicts]_vars

\* C19: check_file_conflicts(paths) returns exactly the input paths, in input order, whose
\* lock file names a worker other than the caller with a fresh heartbeat: a path that is
\* unlocked, locked by the caller, locked by an owner without fresh heartbeat, or whose
\* lock file does not parse is not returned.
C19_ConflictsAreLiveForeignLocks ==
  [][last'.op = "check_file_conflicts"
       => last'.conflicts = LockedByOthers(last'.w, last'.files)]_vars

\* the query was made on two paths, the first with a lock file that does not parse and
\* the second locked by a live peer, and returned the second
C19_Witness ==
  /\ last.op = "check_file_conflicts"
  /\ Len(last.files) = 2
  /\ locks[last.files[1]].state = "corrupt"
  /\ \E v \in Live : v # last.w /\ OwnedBy(locks[last.files[2]], v)
  /\ last.conflicts = <<last.files[2]>>

\* the query was made on a path locked by an owner whose heartbeat is not fresh and on a
\* path locked by the caller, and returned neither
C19_WitnessStale ==
  /\ last.op = "check_file_conflicts"
  /\ Len(last.files) = 2
  /\ \E v \in Workers : v # last.w /\ OwnedBy(locks[last.files[1]], v)
  /\ OwnedBy(locks[last.files[2]], last.w)
  /\ last.conflicts = <<>>

\* ---- claims about is_issue_claimed, whole calls ----
\* C20: is_issue_claimed(X) returns the owner recorded in the claim file exactly when
\* try_claim_issue(X) by a registered worker that is not that owner would be refused in
\* the same state, and None otherwise.
C20_ClaimedIffRefused ==
  \A x \in Issues, v \in Workers :
    (registered[v] /\ ~OwnedBy(claims[x], v)) =>
      /\ (is_issue_claimed(St, x) # None) <=> ~try_claim_issue(St, v, x).L.ok
      /\ is_issue_claimed(St, x) # None => is_issue_claimed(St, x) = claims[x].worker_id

\* ---- claims about the liveness of an issue claim, whole calls ----
\* claim file c is live: its owner's heartbeat is fresh and it is at most 120 s old
LiveClaim(c) ==
  /\ c.state = "ok"
  /\ hb[c.worker_id].state = "ok"
  /\ hb[c.worker_id].age < HEARTBEAT_TIMEOUT_SECONDS
  /\ c.age <= CLAIM_STALE_TIMEOUT_SECONDS

\* C21: for a claim file that is not live (its owner's heartbeat is not fresh, or the
\* claim is older than 120 s), is_issue_claimed returns None, and try_claim_issue by
\* another registered worker, one that does not list the issue as its own, returns True
\* and leaves the claim file naming that worker.
C21_OldClaimIsReclaimed ==
  \A x \in Issues, v \in Workers :
    (/\ claims[x].state = "ok"
     /\ ~LiveClaim(claims[x])
     /\ registered[v]
     /\ claims[x].worker_id # v
     /\ ~InSeq(x, claimed_issues[v]))
      => /\ is_issue_claimed(St, x) = None
         /\ LET r == try_claim_issue(St, v, x) IN r.L.ok /\ OwnedBy(r.S.claims[x], v)

\* ---- claims about the staleness of a role lock, step by step ----
\* the lock file l of role r is young and its owner's heartbeat is fresh
LiveRoleLock(l, r) ==
  /\ l.state = "ok"
  /\ hb[l.worker_id].state = "ok"
  /\ hb[l.worker_id].age < HEARTBEAT_TIMEOUT_SECONDS
  /\ l.age <= RoleTimeout(r)

Startup(w) ==
  /\ ~registered[w]
  /\ call[w].pc = "idle"
  /\ LET S == register(St, w) IN
       /\ Apply(S)
       /\ last' = [Op("register", w) EXCEPT
                     !.ok = \/ S.claims # claims \/ S.locks # locks
                            \/ S.init_lock # init_lock
                            \/ \E v \in AllWorkers \ {w} : S.hb[v] # hb[v]]
  /\ UNCHANGED <<call, scen>>

\* a pause after which every lock that was not renewed is past its window
LongAbsence == AUDIT_LOCK_TIMEOUT_SECONDS + HEARTBEAT_INTERVAL_SECONDS

\* every store, whole calls on one path, time in long absences
NextSweep ==
  \/ \E w \in Workers : Startup(w)
  \/ \E w \in Workers : Heartbeat(w)
  \/ Tick(LongAbsence)
  \/ \E w \in Workers, x \in FileIssues, fs \in {<<1>>} : TryClaimIssueWithFiles(w, x, fs)
  \/ \E w \in Workers : TryClaimInitLock(w)
  \/ \E w \in Workers : TryClaimAuditLock(w)

SpecSweep == Init /\ [][NextSweep]_vars

\* a file of the claims or files directory that the sweeps have to delete
StaleEntry(f) ==
  /\ f.state # "absent"
  /\ \/ f.state # "ok"
     \/ f.worker_id \notin get_active_workers(St)
     \/ f.age > CLAIM_STALE_TIMEOUT_SECONDS

\* a role lock file that a stale check has to delete
StaleRoleLock(r) ==
  LET l == RoleLock(St, r) IN
  /\ l.state # "absent"
  /\ \/ l.state # "ok"
     \/ l.worker_id \notin get_active_workers(St)
     \/ l.age > RoleTimeout(r)

\* nothing stale is left in the heartbeat, claims and files directories
DirectoriesSwept(w) ==
  /\ \A v \in AllWorkers \ {w} :
       hb[v].state = "absent"
         \/ (hb[v].state = "ok" /\ hb[v].age <= HEARTBEAT_TIMEOUT_SECONDS)
  /\ \A x \in Issues : ~StaleEntry(claims[x])
  /\ \A p \in Paths : ~StaleEntry(locks[p])

\* C23 as stated: when register() returns no other worker's heartbeat file is older than
\* 90 s, no claim or file lock has an inactive owner or an age over 120 s, and neither a
\* stale init lock nor a stale audit lock remains.
C23_RegisterSweepsAll ==
  last.op = "register"
    => /\ DirectoriesSwept(last.w)
       /\ ~StaleRoleLock("init")
       /\ ~StaleRoleLock("audit")

\* C23 amended: when register() returns the heartbeat, claims and files directories are
\* swept and no stale init lock remains; register leaves the audit lock file as it was.
C23_RegisterSweepsAllButAudit ==
  [][\A w \in Workers :
       (~registered[w] /\ registered'[w])
         => /\ DirectoriesSwept(w)'
            /\ ~StaleRoleLock("init")'
            /\ audit_lock' = audit_lock]_vars

\* a register call has swept something and a stale audit lock is still there
C23_Witness ==
  /\ last.op = "register"
  /\ last.ok
  /\ StaleRoleLock("audit")

\* ---- claims about orphaned file locks ----
\* a file lock whose owner is not among the active workers
Orphaned(l) == l.state = "ok" /\ l.worker_id \notin get_active_workers(St)

\* C24 as stated: orphaned file locks are deleted by any worker's check_file_conflicts
\* call, as they are by any worker's register call.
C24_QuerySweepsOrphans ==
  last.op = "check_file_conflicts"
    => \A p \in SeqSet(last.files) : ~Orphaned(locks[p])

\* C24 amended: a register call by any worker leaves no orphaned file lock; a
\* check_file_conflicts call deletes nothing, it only leaves orphaned locks out of its
\* result.
C24_OnlyRegisterSweepsOrphans ==
  [][/\ \A w \in Workers :
          (~registered[w] /\ registered'[w]) => \A p \in Paths : ~Orphaned(locks[p])'
     /\ last'.op = "check_file_conflicts"
          => /\ locks' = locks
             /\ \A p \in SeqSet(last'.conflicts) : ~Orphaned(locks[p])]_vars

\* a query met an orphaned lock and left it in place, next to a path whose lock an
\* earlier register call had swept
C24_Witness ==
  /\ last.op = "check_file_conflicts"
  /\ \E p, q \in SeqSet(last.files) :
       /\ Orphaned(locks[p])
       /\ locks[q].state = "absent"
       /\ \E v \in Workers : InSeq(q, claimed_files[v])
  /\ last.conflicts = <<>>

\* ---- claims about a heartbeat file that is read while it is rewritten ----
\* one turn of heartbeat_loop begins: w enters _update_heartbeat
BeatCall(w) ==
  /\ registered[w]
  /\ call[w].pc = "idle"
  /\ call' = [call EXCEPT ![w] = [Idle EXCEPT !.pc = "hbu_open", !.op = "_update_heartbeat"]]
  /\ last' = NoOp
  /\ UNCHANGED <<hb, claims, locks, init_lock, audit_lock, requests, write_fails, registered,
                 claimed_issues, claimed_files, holds_init_lock, holds_audit_lock, scen>>

\* worker w performs the next file system step of its heartbeat write
BeatStep(w) ==
  /\ call[w].op = "_update_heartbeat"
  /\ call[w].pc # "done"
  /\ LET r == hbu_step(St, w, call[w]) IN
     /\ Apply(r.S)
     /\ call' = [call EXCEPT ![w] = r.L]
  /\ last' = NoOp
  /\ UNCHANGED scen

\* _update_heartbeat returns to the loop
BeatReturn(w) ==
  /\ call[w].op = "_update_heartbeat"
  /\ call[w].pc = "done"
  /\ call' = [call EXCEPT ![w] = Idle]
  /\ last' = NoOp
  /\ UNCHANGED <<hb, claims, locks, init_lock, audit_lock, requests, write_fails, registered,
                 claimed_issues, claimed_files, holds_init_lock, holds_audit_lock, scen>>

\* get_active_workers() by v: a scan of the heartbeat files, it writes nothing
Scan(v) ==
  /\ call[v].pc = "idle"
  /\ last' = Op("get_active_workers", v)
  /\ UNCHANGED <<hb, claims, locks, init_lock, audit_lock, requests, write_fails, registered,
                 claimed_issues, claimed_files, holds_init_lock, holds_audit_lock, call, scen>>

\* a heartbeat interval passes between two writes
QuietTick ==
  /\ \A w \in Workers : call[w].pc = "idle"
  /\ Tick(HEARTBEAT_INTERVAL_SECONDS)

\* heartbeat writes step by step, next to the scans and sweeps of the other workers
NextBeat ==
  \/ \E w \in Workers : Register(w)
  \/ \E w \in Workers : Cleanup(w)
  \/ \E w \in Workers : BeatCall(w)
  \/ \E w \in Workers : BeatStep(w)
  \/ \E w \in Workers : BeatReturn(w)
  \/ \E v \in Workers : Scan(v)
  \/ QuietTick

SpecBeat == Init /\ [][NextBeat]_vars

\* worker w is inside _update_heartbeat
Refreshing(w) == call[w].op = "_update_heartbeat" /\ call[w].pc # "done"

\* C25: a heartbeat file is at every moment either the previous or the new complete
\* content, so a worker with a fresh heartbeat that is rewriting its file stays in
\* get_active_workers and its file is not deleted by another worker's sweep.
C25_RefreshIsNeverTorn ==
  [][\A w \in Workers :
       /\ hb'[w].state \in {"absent", "ok"}
       /\ (Refreshing(w) /\ w \in get_active_workers(St))
            => /\ w \in get_active_workers(St')
               /\ hb'[w] = hb[w] \/ (call'[w].pc = "done" /\ hb'[w].age = 0)]_vars

\* a worker scanned the heartbeat files while another, whose temporary file was written
\* and not yet renamed, had a heartbeat one interval old, and found it active
C25_Witness ==
  /\ last.op = "get_active_workers"
  /\ \E w \in Workers \ {last.w} :
       /\ call[w].pc = "hbu_rename"
       /\ hb[w].age = HEARTBEAT_INTERVAL_SECONDS
       /\ w \in get_active_workers(St)

\* ---- claims about a heartbeat write that fails ----
\* writes to the workers directory start or stop raising OSError
SetWriteFails(b) ==
  /\ write_fails # b
  /\ write_fails' = b
  /\ last' = NoOp
  /\ UNCHANGED <<hb, claims, locks, init_lock, audit_lock, requests, registered,
                 claimed_issues, claimed_files, holds_init_lock, holds_audit_lock, call, scen>>

\* one turn of heartbeat_loop; ok records that the file was written
LoopTurn(w) ==
  /\ registered[w]
  /\ call[w].pc = "idle"
  /\ Apply(_update_heartbeat(St, w))
  /\ last' = [Op("heartbeat_loop", w) EXCEPT !.ok = ~write_fails]
  /\ UNCHANGED <<call, scen>>

\* issue claims and heartbeats while writes to the workers directory fail and recover
NextFault ==
  \/ \E w \in Workers : Startup(w)
  \/ \E w \in Workers : LoopTurn(w)
  \/ Tick(HEARTBEAT_INTERVAL_SECONDS)
  \/ \E w \in Workers, x \in FileIssues : TryClaimIssue(w, x)
  \/ \E w \in Workers, x \in FileIssues : ReleaseClaim(w, x)
  \/ \E b \in BOOLEAN : SetWriteFails(b)

SpecFault == Init /\ [][NextFault]_vars

\* C26: while the heartbeat write fails, register, try_claim_issue, release_claim and a
\* turn of heartbeat_loop return normally, with their effect on the claim and on the
\* worker's memory and with the heartbeat file left as it was; the loop goes on, and its
\* next turn once writing works again writes the heartbeat.
C26_FailedWriteDoesNotPropagate ==
  [][/\ (write_fails /\ last'.op \in {"register", "try_claim_issue", "release_claim",
                                      "heartbeat_loop"})
          => /\ ~last'.raised
             /\ registered'[last'.w]
             /\ hb'[last'.w] = hb[last'.w]
     /\ (/\ write_fails /\ last'.op = "try_claim_issue"
         /\ claims[last'.issue].state = "absent"
         /\ ~InSeq(last'.issue, claimed_issues[last'.w]))
          => /\ last'.ok
             /\ OwnedBy(claims'[last'.issue], last'.w)
             /\ InSeq(last'.issue, claimed_issues'[last'.w])
     /\ (write_fails /\ last'.op = "release_claim" /\ OwnedBy(claims[last'.issue], last'.w))
          => /\ claims'[last'.issue].state = "absent"
             /\ ~InSeq(last'.issue, claimed_issues'[last'.w])
     /\ (~write_fails /\ last'.op = "heartbeat_loop")
          => hb'[last'.w].state = "ok" /\ hb'[last'.w].age = 0]_vars

\* a worker that registered while the write failed, and so has no heartbeat file, has
\* claimed an issue while the write still failed
C26_Witness ==
  /\ write_fails
  /\ last.op = "try_claim_issue"
  /\ last.ok
  /\ hb[last.w].state = "absent"
  /\ OwnedBy(claims[last.issue], last.w)

\* ---- claims about what a successful try_claim_issue_with_files leaves ----
\* C27: when try_claim_issue_with_files(X, files) has returned (True, []), the claim file
\* of X names the caller and lists exactly files, every path of files has a lock file
\* naming the caller, and every path of files is in the caller's claimed_files.
C27_SuccessMeansAllHeld ==
  (last.op = "try_claim_issue_with_files" /\ last.ok)
    => /\ OwnedBy(claims[last.issue], last.w)
       /\ claims[last.issue].files = last.files
       /\ \A p \in SeqSet(last.files) :
            OwnedBy(locks[p], last.w) /\ InSeq(p, claimed_files[last.w])

\* ---- claims about who rewrites a claim file ----
\* C28: a worker rewrites an existing claim file, to attach its file list, only when the
\* file names the worker itself: no step of a try_claim_issue_with_files call changes a
\* claim file that names another worker before and after the step.
C28_OnlyOwnClaimIsRewritten ==
  [][\A x \in Issues :
       (/\ last'.op = "try_claim_issue_with_files"
        /\ last'.issue = x
        /\ claims[x].state = "ok"
        /\ claims[x].worker_id # last'.w
        /\ claims'[x].state = "ok"
        /\ claims'[x].worker_id = claims[x].worker_id)
         => claims'[x] = claims[x]]_vars

\* ---- claims about the lists in the heartbeat file ----
\* C29: when a try_claim_issue, try_claim_issue_with_files or release_claim call that
\* changed the caller's claimed_issues or claimed_files has returned, the caller's
\* heartbeat file lists exactly its claimed_issues and its claimed_files.
C29_HeartbeatListsHoldings ==
  [][\A w \in Workers :
       (/\ last'.op \in {"try_claim_issue", "try_claim_issue_with_files", "release_claim"}
        /\ last'.w = w
        /\ claimed_issues'[w] # claimed_issues[w] \/ claimed_files'[w] # claimed_files[w])
         => /\ hb'[w].state = "ok"
            /\ hb'[w].claimed_issues = claimed_issues'[w]
            /\ hb'[w].claimed_files = claimed_files'[w]]_vars

\* ---- claims about decomposition requests ----
\* the lists of new issue ids a request is marked processed with
CreatedLists == {<<>>} \cup {<<y>> : y \in Issues}

\* mark_decomposition_processed(x, created_issues) by w; the method does not look at
\* self._registered
MarkProcessed(w, x, created_issues) ==
  /\ call[w].pc = "idle"
  /\ Apply(mark_decomposition_processed(St, w, x, created_issues))
  /\ last' = [Op("mark_decomposition_processed", w) EXCEPT
                !.issue = x, !.created = created_issues, !.prev = requests[x].status]
  /\ UNCHANGED <<call, scen>>

\* requests for one issue that are made, processed and made again
NextRequests ==
  \/ \E w \in Workers : Register(w)
  \/ \E w \in Workers : Cleanup(w)
  \/ \E w \in Workers, x \in FileIssues, reason \in Reasons, sb \in Breakdowns :
       RequestDecomposition(w, x, reason, sb)
  \/ \E w \in Workers, x \in FileIssues, ys \in CreatedLists : MarkProcessed(w, x, ys)

SpecRequests == Init /\ [][NextRequests]_vars

\* C30: request_decomposition(X, reason, breakdown) by a registered worker returns True
\* and leaves the request record of X pending, requested by the caller, with the given
\* reason and breakdown and nothing of an earlier record, whatever the status and the
\* requester of that record were.
C30_RequestReplacesRecord ==
  [][(last'.op = "request_decomposition" /\ registered[last'.w])
       => /\ last'.ok
          /\ ~last'.raised
          /\ requests'[last'.issue] =
               [status |-> "pending", requested_by |-> last'.w, reason |-> last'.reason,
                suggested_breakdown |-> last'.breakdown, processed_by |-> None,
                created_issues |-> <<>>]]_vars

\* a request with a breakdown of two titles replaced a processed record that another
\* worker had requested
C30_Witness ==
  /\ last.op = "request_decomposition"
  /\ last.ok
  /\ last.prev = "processed"
  /\ last.prev_w \in Workers \ {last.w}
  /\ requests[last.issue].requested_by = last.w
  /\ requests[last.issue].status = "pending"
  /\ Len(requests[last.issue].suggested_breakdown) = 2

\* ---- claims about processed requests ----
\* clear_processed_decomposition_requests() by w
ClearProcessed(w) ==
  /\ call[w].pc = "idle"
  /\ LET r == clear_processed_decomposition_requests(St) IN
     /\ Apply(r.S)
     /\ last' = [Op("clear_processed_decomposition_requests", w) EXCEPT
                   !.cleared = r.cleared]
  /\ UNCHANGED <<call, scen>>

\* the breakdowns of one title
OneTitle == {<<t>> : t \in Titles}

\* requests for two issues that are made, processed and cleared by registered workers
NextPending ==
  \/ \E w \in Workers, x \in Issues, reason \in Reasons, sb \in OneTitle :
       RequestDecomposition(w, x, reason, sb)
  \/ \E w \in Workers, x \in Issues, ys \in CreatedLists : MarkProcessed(w, x, ys)
  \/ \E w \in Workers : ClearProcessed(w)

SpecPending == InitRegistered /\ [][NextPending]_vars

\* C31: mark_decomposition_processed(X, ids) turns an existing request for X into
\* status processed with processed_by the caller and created_issues ids; after it X is
\* not among get_pending_decomposition_requests and has_pending_work_for_initializer is
\* true exactly when a request for another issue is pending; without a request for X the
\* call changes nothing.
C31_MarkProcessed ==
  [][last'.op = "mark_decomposition_processed"
       => LET x == last'.issue IN
          /\ requests[x].status = "absent" => requests' = requests
          /\ requests[x].status # "absent"
               => /\ requests' = [requests EXCEPT ![x] =
                       [@ EXCEPT !.status = "processed", !.processed_by = last'.w,
                                 !.created_issues = last'.created]]
                  /\ x \notin get_pending_decomposition_requests(St')
                  /\ has_pending_work_for_initializer(St')
                       <=> \E y \in Issues \ {x} : requests[y].status = "pending"]_vars

\* a pending request was marked processed with a created issue while the request for the
\* other issue stayed pending
C31_Witness ==
  /\ last.op = "mark_decomposition_processed"
  /\ last.prev = "pending"
  /\ last.created # <<>>
  /\ requests[last.issue].status = "processed"
  /\ requests[last.issue].processed_by = last.w
  /\ requests[last.issue].requested_by # last.w
  /\ has_pending_work_for_initializer(St)

\* C32: clear_processed_decomposition_requests deletes exactly the request records whose
\* status is processed, returns their number, and leaves every pending request in place
\* with its content.
C32_ClearDeletesProcessedOnly ==
  [][last'.op = "clear_processed_decomposition_requests"
       => /\ \A x \in Issues :
               requests'[x] = IF requests[x].status = "processed" THEN AbsentRequest
                              ELSE requests[x]
          /\ last'.cleared = Cardinality({x \in Issues : requests[x].status = "processed"})]_vars

\* a call deleted one processed request and left a pending one
C32_Witness ==
  /\ last.op = "clear_processed_decomposition_requests"
  /\ last.cleared = 1
  /\ \E x, y \in Issues : requests[x].status = "absent" /\ requests[y].status = "pending"

\* ---- the command line helper claim_issue.py: one process per command ----
\* the module level query: it reads the claim file and its owner's heartbeat file
check_issue_available(S, x) ==
  LET c == S.claims[x] IN
  IF c.state = "absent" THEN TRUE
  ELSE IF c.state # "ok" THEN TRUE
  ELSE IF c.age > CLAIM_STALE_TIMEOUT_SECONDS THEN TRUE
  ELSE IF S.hb[c.worker_id].state = "absent" THEN TRUE
  ELSE IF S.hb[c.worker_id].state # "ok" THEN TRUE
  ELSE IF S.hb[c.worker_id].age > HEARTBEAT_TIMEOUT_SECONDS THEN TRUE
  ELSE FALSE

\* the process ends: the coordinator object and its fields are gone, the files stay
process_exit(S, w) ==
  [S EXCEPT !.registered[w] = FALSE, !.claimed_issues[w] = <<>>, !.claimed_files[w] = <<>>,
            !.holds_init_lock[w] = FALSE, !.holds_audit_lock[w] = FALSE]

\* an id that _generate_worker_id can return: no file of the directory carries it
UnusedId(w) ==
  /\ ~registered[w]
  /\ hb[w].state = "absent"
  /\ \A x \in Issues : claims[x].worker_id # w

\* `claim X`: the process gets the id w; ok records that it printed OK
cmd_claim(w, x) ==
  /\ UnusedId(w)
  /\ IF ~check_issue_available(St, x)
     THEN /\ last' = [Op("cmd_claim", w) EXCEPT !.issue = x]
          /\ UNCHANGED <<hb, claims, locks, init_lock, audit_lock, requests, write_fails,
                         registered, claimed_issues, claimed_files, holds_init_lock,
                         holds_audit_lock>>
     ELSE LET r == try_claim_issue(register(St, w), w, x) IN
          /\ Apply(process_exit(IF r.L.ok THEN r.S ELSE cleanup(r.S, w), w))
          /\ last' = [Op("cmd_claim", w) EXCEPT !.issue = x, !.ok = r.L.ok]
  /\ UNCHANGED <<call, scen>>

\* `release X`: the process gets the id w, and prints OK
cmd_release(w, x) ==
  /\ UnusedId(w)
  /\ Apply(process_exit(cleanup(release_claim(register(St, w), w, x), w), w))
  /\ last' = [Op("cmd_release", w) EXCEPT !.issue = x, !.ok = TRUE]
  /\ UNCHANGED <<call, scen>>

\* `check X`: ok records that it printed AVAILABLE
cmd_check(x) ==
  /\ last' = [Op("cmd_check", None) EXCEPT !.issue = x, !.ok = check_issue_available(St, x)]
  /\ UNCHANGED <<hb, claims, locks, init_lock, audit_lock, requests, write_fails, registered,
                 claimed_issues, claimed_files, holds_init_lock, holds_audit_lock, call, scen>>

\* commands run one after another, time in heartbeat intervals
NextCli ==
  \/ \E w \in AllWorkers, x \in Issues : cmd_claim(w, x)
  \/ \E w \in AllWorkers, x \in Issues : cmd_release(w, x)
  \/ \E x \in Issues : cmd_check(x)
  \/ Tick(HEARTBEAT_INTERVAL_SECONDS)

SpecCli == Init /\ [][NextCli]_vars

\* C33: when the command `release X` has printed OK, an issue X that was claimed through
\* the command `claim X` is no longer claimed: its claim file is gone and `check X`
\* reports X as available.
C33_ReleaseCommandFrees ==
  (last.op = "cmd_release" /\ last.ok)
    => /\ claims[last.issue].state = "absent"
       /\ check_issue_available(St, last.issue)

\* ---- claims about the two queries on one issue ----
\* C40: in every state of the shared directory and for every issue X,
\* check_issue_available(project_dir, X) returns True exactly when is_issue_claimed(X),
\* asked by a registered worker that does not own X, returns None.
C40_QueriesAgree ==
  \A x \in Issues :
    (\E v \in Workers : registered[v] /\ ~OwnedBy(claims[x], v))
      => (check_issue_available(St, x) <=> is_issue_claimed(St, x) = None)

\* ---- claims about a claim that is held for a long time ----
\* C34: while a worker is registered, has a heartbeat at most one interval (30 s) old and
\* has not released issue X, no register (with its sweeps) and no try_claim_issue of
\* another worker deletes or replaces the claim file of X, however old the claim is.
C34_LiveOwnerKeepsClaim ==
  [][\A x \in Issues, w \in Workers :
       (/\ OwnedBy(claims[x], w)
        /\ registered[w]
        /\ hb[w].state = "ok"
        /\ hb[w].age <= HEARTBEAT_INTERVAL_SECONDS
        /\ \E v \in Workers \ {w} :
             \/ ~registered[v] /\ registered'[v]
             \/ last'.op = "try_claim_issue" /\ last'.w = v)
         => OwnedBy(claims'[x], w)]_vars

\* ---- claims about what a failed try_claim_issue_with_files leaves ----
\* worker w enters try_claim_issue_with_files(x, fs); last keeps what it holds at this
\* moment: the paths of its claimed_files whose lock file names it, and in ok whether
\* the claim file of x names it
HolderCall(w, x, fs) ==
  /\ registered[w]
  /\ call[w].pc = "idle"
  /\ call' = [call EXCEPT ![w] = [Idle EXCEPT !.pc = "cwf_check",
                                              !.op = "try_claim_issue_with_files",
                                              !.issue = x, !.files = fs]]
  /\ LET Mine(p) == OwnedBy(locks[p], w) IN
     last' = [Op("try_claim_issue_with_files", w) EXCEPT
                !.issue = x, !.files = SelectSeq(claimed_files[w], Mine),
                !.ok = OwnedBy(claims[x], w) /\ InSeq(x, claimed_issues[w])]
  /\ UNCHANGED <<hb, claims, locks, init_lock, audit_lock, requests, write_fails, registered,
                 claimed_issues, claimed_files, holds_init_lock, holds_audit_lock, scen>>

\* the caller takes the result and is ready for its next call
FilesReturn(w) ==
  /\ call[w].op = "try_claim_issue_with_files"
  /\ call[w].pc = "done"
  /\ call' = [call EXCEPT ![w] = Idle]
  /\ last' = NoOp
  /\ UNCHANGED <<hb, claims, locks, init_lock, audit_lock, requests, write_fails, registered,
                 claimed_issues, claimed_files, holds_init_lock, holds_audit_lock, scen>>

\* workers make one call after another, their operations interleaved; no time passes
NextHeld ==
  \/ \E w \in Workers, x \in Issues, fs \in CallLists : HolderCall(w, x, fs)
  \/ \E w \in Workers : FilesStep(w)
  \/ \E w \in Workers : FilesReturn(w)

SpecHeld == InitRegistered /\ [][NextHeld]_vars

\* C35: when try_claim_issue_with_files(X, files) has returned failure, every issue claim
\* and file lock the caller held before the call is as it was, a claim on X obtained by
\* an earlier call and locks on paths of files held before included.
C35_FailureKeepsHoldings ==
  \A w \in Workers :
    (/\ last.op = "try_claim_issue_with_files" /\ last.w = w
     /\ call[w].pc = "done" /\ ~call[w].ok /\ ~call[w].raised)
      => /\ \A p \in SeqSet(last.files) : OwnedBy(locks[p], w) /\ InSeq(p, claimed_files[w])
         /\ last.ok => OwnedBy(claims[last.issue], w) /\ InSeq(last.issue, claimed_issues[w])

\* ---- claims about the locks of a claim's file list ----
\* C36: while a live worker holds an issue claim made with a file list and has not
\* released that issue, every path of the list stays locked by that worker: release_claim
\* of another issue of the same worker, whose list shares a path, leaves the lock of the
\* shared path.
\* registered workers claim issues with file lists and release them, call by call
NextShared ==
  \/ \E w \in Workers, x \in Issues, fs \in CallLists : TryClaimIssueWithFiles(w, x, fs)
  \/ \E w \in Workers, x \in Issues : ReleaseClaim(w, x)

SpecShared == InitRegistered /\ [][NextShared]_vars

C36_SharedPathStaysLocked ==
  [][\A w \in Workers, x \in Issues :
       (/\ last'.op = "release_claim" /\ last'.w = w /\ last'.issue # x
        /\ OwnedBy(claims[x], w)
        /\ \A p \in SeqSet(claims[x].files) : OwnedBy(locks[p], w))
         => /\ OwnedBy(claims'[x], w)
            /\ \A p \in SeqSet(claims[x].files) : OwnedBy(locks'[p], w)]_vars

\* ---- claims about a worker's memory and the directories ----
\* C37: in every reachable state each issue in a registered worker's in-memory claim set
\* has a claim file naming that worker, and each path in its in-memory held-file set has
\* a lock file naming that worker, also after other workers' registers and sweeps and
\* after time has passed.
C37_MemoryMatchesFiles ==
  \A w \in Workers :
    registered[w] =>
      /\ \A x \in SeqSet(claimed_issues[w]) : OwnedBy(claims[x], w)
      /\ \A p \in SeqSet(claimed_files[w]) : OwnedBy(locks[p], w)

\* ---- claims about a request made while another is marked processed ----
\* mark_decomposition_processed, one file operation per step; the locals of the call are
\* L.issue, L.created (created_issues) and L.data (the record read from the file)
\* request_file.exists()
mdp_exists(S, w, L) ==
  IF S.requests[L.issue].status = "absent" THEN Return(S, L, TRUE)
  ELSE Goto(S, L, "mdp_read")

\* data = json.loads(request_file.read_text()); a file that has gone raises an OSError,
\* which the method swallows
mdp_read(S, w, L) ==
  IF S.requests[L.issue].status = "absent" THEN Return(S, L, TRUE)
  ELSE Goto(S, [L EXCEPT !.data = S.requests[L.issue]], "mdp_write")

\* request_file.write_text(...) of the record that was read, marked processed
mdp_write(S, w, L) ==
  Return([S EXCEPT !.requests[L.issue] =
            [L.data EXCEPT !.status = "processed", !.processed_by = w,
                           !.created_issues = L.created]], L, TRUE)

mdp_step(S, w, L) ==
  IF L.pc = "mdp_exists" THEN mdp_exists(S, w, L)
  ELSE IF L.pc = "mdp_read" THEN mdp_read(S, w, L)
  ELSE mdp_write(S, w, L)

\* worker w begins mark_decomposition_processed(x, created_issues)
MarkCall(w, x, created_issues) ==
  /\ call[w].pc = "idle"
  /\ call' = [call EXCEPT ![w] = [Idle EXCEPT !.pc = "mdp_exists",
                                              !.op = "mark_decomposition_processed",
                                              !.issue = x, !.created = created_issues]]
  /\ last' = [Op("mark_decomposition_processed", w) EXCEPT !.issue = x]
  /\ UNCHANGED <<hb, claims, locks, init_lock, audit_lock, requests, write_fails, registered,
                 claimed_issues, claimed_files, holds_init_lock, holds_audit_lock, scen>>

\* worker w performs the next file operation of its mark_decomposition_processed
MarkStep(w) ==
  /\ call[w].op = "mark_decomposition_processed"
  /\ call[w].pc # "done"
  /\ LET r == mdp_step(St, w, call[w]) IN
     /\ Apply(r.S)
     /\ call' = [call EXCEPT ![w] = r.L]
  /\ UNCHANGED <<last, scen>>

\* mark_decomposition_processed returns
MarkReturn(w) ==
  /\ call[w].op = "mark_decomposition_processed"
  /\ call[w].pc = "done"
  /\ call' = [call EXCEPT ![w] = Idle]
  /\ UNCHANGED <<hb, claims, locks, init_lock, audit_lock, requests, write_fails, registered,
                 claimed_issues, claimed_files, holds_init_lock, holds_audit_lock, last,
                 scen>>

\* coding workers request the decomposition of an issue while others mark its request
\* processed; last names the latest call that was begun or made
NextMarkRace ==
  \/ \E w \in Workers, x \in FileIssues, reason \in Reasons, sb \in OneTitle :
       RequestDecomposition(w, x, reason, sb)
  \/ \E w \in Workers, x \in FileIssues, ys \in CreatedLists : MarkCall(w, x, ys)
  \/ \E w \in Workers : MarkStep(w)
  \/ \E w \in Workers : MarkReturn(w)

SpecMarkRace == InitRegistered /\ [][NextMarkRace]_vars

\* C38: a request written by request_decomposition(X, ...) is never lost: when it is made
\* while another worker's mark_decomposition_processed(X, ...) is between its read and its
\* write, it is still the pending record of X, with its own reason and breakdown, once the
\* mark has returned. (In the states below no call was begun after the request, and the
\* mark has read a record that is not the one the request wrote.)
C38_RequestSurvivesMark ==
  \A w \in Workers :
    (/\ call[w].op = "mark_decomposition_processed" /\ call[w].pc = "done"
     /\ last.op = "request_decomposition" /\ last.ok
     /\ last.issue = call[w].issue
     /\ call[w].data.status # "absent"
     /\ call[w].data # PendingRequest(last.w, last.reason, last.breakdown))
      => requests[last.issue] = PendingRequest(last.w, last.reason, last.breakdown)

\* ---- claims about the heartbeat file after cleanup ----
\* one turn of heartbeat_loop of w's process: the loop was started after register() and
\* looks at neither self._registered nor the heartbeat file before it writes
HeartbeatLoopTurn(w) ==
  /\ call[w].pc = "idle"
  /\ Apply(_update_heartbeat(St, w))
  /\ last' = Op("heartbeat_loop", w)
  /\ UNCHANGED <<call, scen>>

\* Ctrl+C in w's process: _signal_handler runs cleanup() and raises SystemExit at the
\* statement that was interrupted; the process ends there (pc "exited"), or goes on with
\* its heartbeat task when that statement is inside a try with a bare except
\* (swallowed), as in try_claim_issue and the sweeps
SignalHandler(w, swallowed) ==
  /\ registered[w]
  /\ call[w].pc = "idle"
  /\ Apply(cleanup(St, w))
  /\ call' = [call EXCEPT ![w] = IF swallowed THEN Idle ELSE [Idle EXCEPT !.pc = "exited"]]
  /\ last' = Op("_signal_handler", w)
  /\ UNCHANGED scen

\* agents whose heartbeat loops run, that claim issues, are interrupted and register again
NextSignal ==
  \/ \E w \in Workers : HeartbeatLoopTurn(w)
  \/ \E w \in Workers, swallowed \in BOOLEAN : SignalHandler(w, swallowed)
  \/ \E w \in Workers : Register(w)
  \/ \E w \in Workers, x \in Issues : TryClaimIssue(w, x)
  \/ Tick(HEARTBEAT_INTERVAL_SECONDS)

SpecSignal == InitRegistered /\ [][NextSignal]_vars

\* C39: once cleanup() has removed the worker's heartbeat file, the file does not reappear
\* unless register() is called again: no step other than a register() of the worker, a
\* turn of its heartbeat_loop included, creates the heartbeat file of an unregistered
\* worker.
C39_HeartbeatStaysRemoved ==
  [][\A w \in Workers :
       (~registered[w] /\ ~registered'[w] /\ hb[w].state = "absent")
         => hb'[w].state = "absent"]_vars

====
